---- MODULE Spec2Model ----
(***************************************************************************)
(* A model of dossier.web's result-stream processing:                      *)
(*   - filter_preds.nilsimsa_near_duplicates (init_filter and the          *)
(*     accumulating_predicate closure it returns),                         *)
(*   - search_engines.streaming_sample,                                    *)
(*   - filter_preds.already_labeled,                                       *)
(*   - the filter selection of routes.v1_search and                        *)
(*     interface.SearchEngine.create_filter_predicate, run through         *)
(*     search_engines.plain_index_scan,                                    *)
(*   - the `limit` parameter of a search request,                          *)
(*   - metrics.pairwise.nilsimsa_max_similarity.                           *)
(*                                                                         *)
(* A nilsimsa digest is a 64-character hex string, i.e. a 256-bit value;   *)
(* it is modelled by the number it denotes, and the digests that occur are *)
(* drawn from 0..MaxDigest (256-bit values whose high bits are zero); the   *)
(* kernels of dossier.metrics are also given the complements of these,     *)
(* written as the negative numbers they are in two's complement.           *)
(* Spec runs the predicate on short streams of candidates with several     *)
(* digests, StreamSpec on longer streams of candidates with one digest,    *)
(* RepeatSpec on the streams test_filter_preds.py builds by repeating a    *)
(* list of texts; SampleSpec runs streaming_sample; LabelSpec runs         *)
(* already_labeled while labels are put; ConcurrentSpec interleaves the    *)
(* closures of two requests; SearchSpec runs one search request from the   *)
(* filter names to the sampled results; ScenarioSpec filters a stream and   *)
(* samples the survivors; LimitSpec follows a request's limit; MetricsSpec *)
(* calls the similarity kernel on two feature collections.                 *)
(* A feature collection is modelled by the two slots get_string_counter    *)
(* reads: the feature at `nilsimsa_feature_name` (plain) and the one at    *)
(* DISPLAY_PREFIX + `nilsimsa_feature_name` (display).                     *)
(***************************************************************************)
EXTENDS Integers, Sequences, FiniteSets, TLC

\* ------------------------------------------------------------ bounds

\* Digests range over 0..MaxDigest in Spec.
MaxDigest == 2

\* Digests range over 0..MaxStreamDigest in StreamSpec and RepeatSpec.
MaxStreamDigest == 4

\* A StringCounter holds at most this many digests.
MaxDigestsPerFC == 2

\* Candidates evaluated in one run of Spec.
MaxStream == 2

\* Candidates evaluated in one run of StreamSpec (one digest each).
MaxLongStream == 4

\* The tests' list of texts has at most this many items.
MaxTexts == 3

\* The tests repeat their list of texts at most this many times.
MaxRepeat == 2

\* streaming_sample reads streams of at most this many items.
MaxSeqLen == 4

\* streaming_sample is asked for at most this many items.
MaxK == 3

\* The largest scan limit streaming_sample is given.
MaxLimit == 4

\* The label store holds labels among the query and this many other ids.
MaxCandidates == 2

\* The label store holds at most this many labels.
MaxLabels == 2

\* The already_labeled predicate is called at most this many times.
MaxCalls == 3

\* Each of two concurrent predicates is handed this many candidates.
MaxClosureStream == 2

\* A search scans at most this many candidates.
MaxUpstream == 3

\* A search asks for at most this many results.
MaxSearchLimit == 2

\* Candidates filtered before the survivors are sampled.
MaxFiltered == 3

\* The survivors are sampled for at most this many items.
MaxSampleK == 5

\* The similarity kernel is given the digests 0..MaxMetricDigest and their
\* complements.
MaxMetricDigest == 1

\* A StringCounter given to the similarity kernel holds at most this many.
MaxMetricKeys == 2

\* A request's `limit` parameter lies at most this far below zero or above
\* the maximum, or this far inside either end of the range.
MaxExcess == 2

\* Content ids the NAME index of the random engine's store may hold.
MaxRandIds == 2

\* Content ids, besides the query's, the indexes may hold.
MaxScanIds == 3

\* Content ids the index scans of one call of streaming_ids may yield.
MaxScanned == 3

\* Labels the label store of Folders may hold.
MaxFolderLabels == 2

\* ------------------------------------------------- program constants

\* The top of nilsimsa's score range [-128, 128].
MaxScore == 128

\* A nilsimsa digest has 256 bits (64 hex characters).
DigestBits == 256

\* routes.py line 153: the maximum v1_search gives str_to_max_int.
RouteMaximum == 100

\* interface.py line 70: SearchEngine.param_schema['limit'].
SchemaDefault == 30

SchemaMinimum == 0

SchemaMaximum == 1000000

\* The content id the filter is initialised with; candidates are numbered
\* 1, 2, ... in stream order.
query_content_id == 0

\* ------------------------------------------------------------ values

Digests == 0..MaxDigest

DigestSets == {s \in SUBSET Digests : Cardinality(s) <= MaxDigestsPerFC}

\* Python's None, as the value of a feature slot.
NoneValue == [type |-> "None", keys |-> {}]

\* A feature that is present but is no StringCounter.
OtherFeature == [type |-> "other", keys |-> {}]

StringCounter(ks) == [type |-> "StringCounter", keys |-> ks]

\* store.get(content_id) found nothing.
NoneFC == [isNone |-> TRUE, plain |-> NoneValue, display |-> NoneValue]

FeatureCollection(p, d) == [isNone |-> FALSE, plain |-> p, display |-> d]

\* make_fc of the tests: the digests under '#nilsimsa_all'.
make_fc(ks) == FeatureCollection(NoneValue, StringCounter(ks))

\* Feature collections without a usable digest feature.
MalformedFCs ==
    { FeatureCollection(NoneValue, NoneValue),
      FeatureCollection(OtherFeature, StringCounter({0})) }

CandidateFCs == {make_fc(ks) : ks \in DigestSets} \cup MalformedFCs

QueryFCs == {make_fc(ks) : ks \in DigestSets}
              \cup {NoneFC, FeatureCollection(NoneValue, NoneValue)}

StreamDigests == 0..MaxStreamDigest

SingleDigestFCs == {make_fc({d}) : d \in StreamDigests}

StreamQueryFCs ==
    SingleDigestFCs
      \cup {make_fc({}), NoneFC, FeatureCollection(NoneValue, NoneValue)}

\* ------------------------------------------------------- the kernel

RECURSIVE DiffBits(_, _)
\* Number of bit positions in which two digests differ.
DiffBits(a, b) ==
    IF a = 0 /\ b = 0 THEN 0
    ELSE (IF a % 2 = b % 2 THEN 0 ELSE 1) + DiffBits(a \div 2, b \div 2)

\* The bitwise complement of a 256-bit digest.
Flip(a) == 0 - a - 1

\* Number of bit positions in which two 256-bit digests differ, a negative
\* number standing for the digest whose complement is Flip of it.
DigestDiffBits(a, b) ==
    IF a >= 0 /\ b >= 0 THEN DiffBits(a, b)
    ELSE IF a < 0 /\ b < 0 THEN DiffBits(Flip(a), Flip(b))
    ELSE IF a < 0 THEN DigestBits - DiffBits(Flip(a), b)
    ELSE DigestBits - DiffBits(a, Flip(b))

\* nilsimsa.compare_digests: 128 minus the number of differing bits.
compare_digests(hash1, hash2) == MaxScore - DigestDiffBits(hash1, hash2)

\* The thresholds a deployment may configure, for digests drawn from D:
\* every score two of them can have, and one below it.
Thresholds(D) ==
    {compare_digests(a, b) : a, b \in D}
      \cup {compare_digests(a, b) - 1 : a, b \in D}

\* ------------------------------------------------ filter_preds.py

\* What a call yields when it raises TypeError instead of returning.
TypeError == [type |-> "TypeError", keys |-> {}]

\* `feature_name not in fc` raises TypeError when fc is None.
get_string_counter(fc) ==
    IF fc.isNone THEN TypeError
    ELSE LET feature ==
                 IF fc.plain.type = "None" THEN fc.display ELSE fc.plain
         IN  IF feature.type = "StringCounter" THEN feature ELSE NoneValue

\* init_filter with lines 97-99 left out: nothing is seeded.
SeedNothing(sim_feature, content_id) == [nhash \in {} |-> content_id]

\* Lines 96-99: the accumulator init_filter builds from the query.
SeedAccumulator(sim_feature, content_id) ==
    IF sim_feature.type = "StringCounter" /\ sim_feature.keys # {}
    THEN [nhash \in sim_feature.keys |-> content_id]
    ELSE [nhash \in {} |-> content_id]

\* The predicate with the loop of lines 104-109 left out.
ExactMatchNever(keys, acc) == FALSE

\* Lines 104-109: some digest of the candidate is a key of the accumulator.
ExactMatch(keys, acc) == \E nhash \in keys : nhash \in DOMAIN acc

\* Line 113 with `>=` for `>`.
NearDuplicateAtThreshold(keys, acc, thr) ==
    \E hash1 \in keys, hash2 \in DOMAIN acc :
        compare_digests(hash1, hash2) >= thr

\* Lines 111-115: some pair scores above the threshold.
NearDuplicate(keys, acc, thr) ==
    \E hash1 \in keys, hash2 \in DOMAIN acc :
        compare_digests(hash1, hash2) > thr

\* Line 118 outside its loop: only the last digest iterated is added.
AccumulateLast(acc, keys, content_id) ==
    LET last == {nhash \in keys : \A other \in keys : other <= nhash}
    IN  [nhash \in DOMAIN acc \cup last |->
            IF nhash \in last THEN content_id ELSE acc[nhash]]

\* Lines 117-118 building a new dict instead of updating the closure's.
AccumulateFresh(acc, keys, content_id) == [nhash \in keys |-> content_id]

\* Lines 117-118 left out.
AccumulateNothing(acc, keys, content_id) == acc

\* Lines 117-118 skipped for a content id the accumulator already holds.
AccumulateOncePerId(acc, keys, content_id) ==
    IF \E held \in DOMAIN acc : acc[held] = content_id THEN acc
    ELSE [nhash \in DOMAIN acc \cup keys |->
             IF nhash \in keys THEN content_id ELSE acc[nhash]]

\* Lines 117-118: the candidate's digests added under its id.
Accumulate(acc, keys, content_id) ==
    [nhash \in DOMAIN acc \cup keys |->
        IF nhash \in keys THEN content_id ELSE acc[nhash]]

\* What accumulating_predicate returns for a candidate with digests `keys`.
PredicateResult(acc, thr, keys) ==
    IF ExactMatch(keys, acc) THEN FALSE
    ELSE IF NearDuplicate(keys, acc, thr) THEN FALSE
    ELSE TRUE

\* Lines 117-118 run before the two rejecting loops.
AccumulateAlways(acc, thr, keys, content_id) ==
    Accumulate(acc, keys, content_id)

\* The accumulator accumulating_predicate leaves behind.
PredicateAccumulator(acc, thr, keys, content_id) ==
    IF PredicateResult(acc, thr, keys)
    THEN Accumulate(acc, keys, content_id)
    ELSE acc

\* Whether accumulating_predicate called compare_digests at all: the loop of
\* line 111 is entered only past the exact-match loop, and has a first pair
\* only when both the candidate and the accumulator hold a digest.
PredicateCompares(acc, keys) ==
    ~ExactMatch(keys, acc) /\ keys # {} /\ DOMAIN acc # {}

\* Content ids: the query's and the candidates'.
ContentIds == 0..MaxCandidates

\* A label between two content ids.
Labels == {l \in ContentIds \X ContentIds : l[1] # l[2]}

\* label_store.directly_connected(content_id): the labels with that end.
directly_connected(store, content_id) ==
    {label \in store : label[1] = content_id \/ label[2] = content_id}

\* label.other(content_id): the end of the label that is not content_id.
other(label, content_id) ==
    IF label[1] = content_id THEN label[2] ELSE label[1]

\* Line 22: the far ends of the labels directly_connected returned.
FarEnds(store, content_id) ==
    {other(label, content_id) : label \in directly_connected(store, content_id)}

\* Line 24 reading the label store again at every call of p.
RejectionSetLive(snapshot, store, content_id) == FarEnds(store, content_id)

\* Line 24: p looks the candidate up in the set init_filter built, whatever
\* the label store holds by now.
RejectionSet(snapshot, store, content_id) == snapshot

\* Lines 23-24: what p returns for a candidate.
already_labeled_p(rejected, content_id) == content_id \notin rejected

\* ------------------------------------------------------------- state

VARIABLES
    threshold,     \* the `threshold` nilsimsa_near_duplicates was built with
    query_fc,      \* store.get(query_content_id)
    pc,            \* "new": built; "ready": init_filter returned the
                   \* predicate; "raised": a call raised TypeError
    accumulator,   \* the closure's dict: digest -> content id
    stream,        \* the candidates handed to the predicate so far
    results,       \* what the predicate returned for them, in order
    kernelCalled,  \* the last call of the predicate called compare_digests
    returned,      \* what compare_digests(hash1, hash2, threshold=threshold)
                   \* returned in that call, per pair (ThresholdSpec)
    texts,         \* the digests of the tests' list of texts (<<>>: no test)
    fcs,           \* the tests' list `fcs`: what is still to be filtered
    \* streaming_sample(seq, k, limit); the stream's item at position i is i
    sample_pc,     \* "idle", "loop" (line 120), "done" (returned), "raised"
    seq_len,       \* number of items `seq` can yield
    arg_k,         \* the argument k: {} for None, {n} for the integer n
    arg_limit,     \* the argument limit, likewise
    pos,           \* number of items pulled from `seq` so far
    k,             \* the local k, after line 117
    limit,         \* the local limit, after line 118 ({} for None)
    scanned,       \* items the islice of line 120 has yielded
    count,         \* enumerate's counter for the next item
    result,        \* the list `result`
    \* already_labeled(label_store)
    label_store,   \* the labels the label store holds
    labeled_pc,    \* "new": init_filter not called yet; "ready": p exists
    labeled_cids,  \* the closure's set `labeled_cids`
    connected,     \* number of calls of directly_connected so far
    asked,         \* the content ids p was called with, in order
    answers,       \* what p returned for them
    \* the near-duplicate predicates of concurrent requests
    \* one search request
    engine,        \* what builds the predicate: "v1_search" (routes.py) or
                   \* "create_filter_predicate" (interface.py)
    registered,    \* the names of the filters that exist
    filter_names,  \* the request's `filter` parameters, in order
    limit_param,   \* the request's `limit` query parameter, as sent
    search_limit,  \* the `limit` the search engine is called with
    upstream,      \* the candidates (cid, store.get(cid)) of the index scan
    search_pc,     \* "request", "parsed" (the limit is read), "built" (the
                   \* predicate exists), "scan" (plain_index_scan runs),
                   \* "aborted" (404 or KeyError), "raised" (TypeError),
                   \* "failed" (a read of the index or the store raised)
    preds,         \* the list `preds`, by filter name
    cursor,        \* number of candidates taken from upstream
    verdicts,      \* per candidate taken: the sub-predicate calls made for
                   \* it, and whether the filter kept it
    closures,      \* per init_filter call: its query, and what its
                   \* accumulating_predicate was handed and returned
    dicts,         \* the dict objects: per object, digest -> content id
    \* nilsimsa_max_similarity(fc1, fc2, 'nilsimsa_all')
    sim_pc,        \* "idle", "done" (returned), "raised" (AttributeError)
    sim_fc1,       \* the argument fc1
    sim_fc2,       \* the argument fc2
    sim_pairs,     \* product(f1.keys(), f2.keys()), in iteration order
    sim_compared,  \* number of calls of compare_digests made
    sim_value,     \* the value returned, as a fraction
    \* search_engines.random(store)(content_id, filter_pred, limit)
    rand_pc,       \* "idle", "done" (returned), "raised" (KeyError)
    name_indexed,  \* u'NAME' in store.index_names()
    rand_fc,       \* store.get(content_id): None, or the FC's NAME values
    name_scan,     \* store.index_scan(u'NAME', name), per name
    rand_store,    \* the content ids store.get_many has an FC for
    rand_pred,     \* the content ids filter_pred accepts
    rand_limit,    \* the argument limit
    rand_results,  \* the list the call returned under 'results'
    \* plain_index_scan.streaming_ids(content_id)
    ids_pc,        \* "idle", "scan" (the generator runs), "done"
    ids_query,     \* get_query_fc(content_id): None, or per index name
                   \* the query's feature of that name
    ids_plan,      \* the index scans still to run: (index name, value)
    cids,          \* the set `cids`
    blacklist,     \* the set `blacklist`
    ids_read,      \* the content ids the index scans have yielded
    ids_yielded,   \* the content ids streaming_ids has yielded
    \* Folders(store, label_store); a string is the sequence of its
    \* characters
    fc_store,      \* the content ids self.store holds a feature collection for
    folder_labels, \* the labels self.label_store holds
    folder_call    \* the last call of a method of Folders: its arguments,
                   \* how it ended, and what it yielded, each with the number
                   \* of times it was yielded

filterVars ==
    <<threshold, query_fc, pc, accumulator, stream, results, kernelCalled,
      returned,
      texts, fcs>>

sampleVars ==
    <<sample_pc, seq_len, arg_k, arg_limit, pos, k, limit, scanned, count,
      result>>

labelVars ==
    <<label_store, labeled_pc, labeled_cids, connected, asked, answers>>

closureVars == <<closures, dicts>>

metricVars ==
    <<sim_pc, sim_fc1, sim_fc2, sim_pairs, sim_compared, sim_value>>

randomVars ==
    <<rand_pc, name_indexed, rand_fc, name_scan, rand_store, rand_pred,
      rand_limit, rand_results>>

idsVars ==
    <<ids_pc, ids_query, ids_plan, cids, blacklist, ids_read, ids_yielded>>

folderVars == <<fc_store, folder_labels, folder_call>>

\* The components that no other component's step touches.
restVars == <<metricVars, randomVars, idsVars, folderVars>>

requestVars ==
    <<engine, registered, filter_names, limit_param, search_limit, upstream>>

searchVars == <<requestVars, search_pc, preds, cursor, verdicts>>

vars ==
    <<filterVars, sampleVars, labelVars, closureVars, searchVars,
      restVars>>

\* What a step of one component leaves alone.
exceptFilter ==
    <<sampleVars, labelVars, closureVars, searchVars, restVars>>

exceptSample ==
    <<filterVars, labelVars, closureVars, searchVars, restVars>>

exceptLabel ==
    <<filterVars, sampleVars, closureVars, searchVars, restVars>>

exceptClosures ==
    <<filterVars, sampleVars, labelVars, searchVars, restVars>>

exceptMetrics ==
    <<filterVars, sampleVars, labelVars, closureVars, searchVars, randomVars,
      idsVars, folderVars>>

exceptRandom ==
    <<filterVars, sampleVars, labelVars, closureVars, searchVars, metricVars,
      idsVars, folderVars>>

exceptIds ==
    <<filterVars, sampleVars, labelVars, closureVars, searchVars, metricVars,
      randomVars, folderVars>>

exceptFolders ==
    <<filterVars, sampleVars, labelVars, closureVars, searchVars, metricVars,
      randomVars, idsVars>>

EmptyAccumulator == [nhash \in {} |-> query_content_id]

\* No pair has been compared.
NoScores == [pair \in {} |-> 0]

\* nilsimsa_near_duplicates(label_store, store, threshold=...) has returned
\* init_filter; nothing has been called yet.
FilterInit(thresholds, stored) ==
    /\ threshold \in thresholds
    /\ query_fc \in stored
    /\ pc = "new"
    /\ accumulator = EmptyAccumulator
    /\ stream = <<>>
    /\ results = <<>>
    /\ kernelCalled = FALSE
    /\ returned = NoScores
    /\ texts = <<>>
    /\ fcs = <<>>

\* init_filter(query_content_id): the TypeError of get_string_counter, when
\* the store has no FC for the query, is not caught.
init_filter ==
    /\ pc = "new"
    /\ IF get_string_counter(query_fc) = TypeError
       THEN /\ pc' = "raised"
            /\ UNCHANGED accumulator
       ELSE /\ pc' = "ready"
            /\ accumulator' =
                 SeedAccumulator(get_string_counter(query_fc), query_content_id)
    /\ UNCHANGED <<threshold, query_fc, stream, results, kernelCalled>>
    /\ UNCHANGED returned
    /\ UNCHANGED <<texts, fcs>>

\* The caller's `init_filter(query_content_id)` on its own.
InitFilter == init_filter /\ UNCHANGED exceptFilter

\* accumulating_predicate((content_id, fc)).  `for nhash in sim_feature`
\* raises TypeError when get_string_counter returned None, and a TypeError
\* of get_string_counter is not caught.
accumulating_predicate(content_id, fc) ==
    /\ pc = "ready"
    /\ stream' = Append(stream, [content_id |-> content_id, fc |-> fc])
    /\ LET sim_feature == get_string_counter(fc)
       IN  IF sim_feature = TypeError \/ sim_feature = NoneValue
           THEN /\ pc' = "raised"
                /\ kernelCalled' = FALSE
                /\ UNCHANGED <<accumulator, results>>
           ELSE /\ pc' = "ready"
                /\ results' = Append(results,
                       PredicateResult(accumulator, threshold, sim_feature.keys))
                /\ accumulator' =
                       PredicateAccumulator(accumulator, threshold,
                                            sim_feature.keys, content_id)
                /\ kernelCalled' =
                       PredicateCompares(accumulator, sim_feature.keys)
    /\ UNCHANGED <<threshold, query_fc, texts, returned>>

\* A short stream of arbitrary candidates.
Evaluate ==
    /\ Len(stream) < MaxStream
    /\ \E fc \in CandidateFCs : accumulating_predicate(Len(stream) + 1, fc)
    /\ UNCHANGED fcs
    /\ UNCHANGED exceptFilter

\* A longer stream of candidates that carry one digest each.
EvaluateSingle ==
    /\ Len(stream) < MaxLongStream
    /\ \E fc \in SingleDigestFCs : accumulating_predicate(Len(stream) + 1, fc)
    /\ UNCHANGED fcs
    /\ UNCHANGED exceptFilter

\* chain(*repeat(list, n)).
Repeated(list, n) ==
    [i \in 1..(n * Len(list)) |-> list[((i - 1) % Len(list)) + 1]]

\* The set-up of test_near_duplicates_update_logic and of
\* test_near_duplicates_speed_perf: one FC per text of the repeated list,
\* numbered from 0; the first is popped and stored as the query.
TestSetup(list, n) ==
    /\ texts = list
    /\ query_fc = make_fc({list[1]})
    /\ fcs = Tail([i \in 1..(n * Len(list)) |-> make_fc({Repeated(list, n)[i]})])
    /\ pc = "new"
    /\ accumulator = EmptyAccumulator
    /\ stream = <<>>
    /\ results = <<>>
    /\ kernelCalled = FALSE
    /\ returned = NoScores

\* One step of filter(accumulating_predicate, fcs).
FilterNext ==
    /\ fcs # <<>>
    /\ accumulating_predicate(Len(stream) + 1, Head(fcs))
    /\ fcs' = Tail(fcs)
    /\ UNCHANGED exceptFilter

\* ---------------------------------------------- search_engines.py

Min(a, b) == IF a <= b THEN a ELSE b

\* streaming_sample has not been called.
SampleIdle ==
    /\ sample_pc = "idle"
    /\ seq_len = 0
    /\ arg_k = {}
    /\ arg_limit = {}
    /\ pos = 0
    /\ k = 0
    /\ limit = {}
    /\ scanned = 0
    /\ count = 0
    /\ result = <<>>

\* Line 119 as islice(seq, k - 1): the reservoir is filled one item short.
SampleFillShort(n, kv, lim) ==
    LET k1 == IF lim = {} THEN kv ELSE Min(CHOOSE l \in lim : TRUE, kv)
        first == [i \in 1..Min(k1 - 1, n) |-> i]
    IN  /\ k' = k1
        /\ limit' = IF lim = {} THEN {} ELSE {(CHOOSE l \in lim : TRUE) - k1}
        /\ result' = first
        /\ pos' = Len(first)
        /\ count' = Len(first)
        /\ sample_pc' = "loop"

\* Lines 112-119 for k = kv: the local k, the local limit, the first items.
SampleFill(n, kv, lim) ==
    LET k1 == IF lim = {} THEN kv ELSE Min(CHOOSE l \in lim : TRUE, kv)
        first == [i \in 1..Min(k1, n) |-> i]
    IN  /\ k' = k1
        /\ limit' = IF lim = {} THEN {} ELSE {(CHOOSE l \in lim : TRUE) - k1}
        /\ result' = first
        /\ pos' = Len(first)
        /\ count' = Len(first)
        /\ sample_pc' = "loop"

\* Line 117: the local k.
LocalK(kv, lim) == IF lim = {} THEN kv ELSE Min(CHOOSE l \in lim : TRUE, kv)

\* Line 119: islice(seq, k) raises ValueError for a negative stop.
IsliceRaises(stop) == stop < 0

\* The call streaming_sample(seq, k, limit) up to the loop of line 120.
streaming_sample(n, ka, lim) ==
    /\ sample_pc = "idle"
    /\ seq_len' = n
    /\ arg_k' = ka
    /\ arg_limit' = lim
    /\ scanned' = 0
    /\ IF ka = {}
       THEN /\ result' = [i \in 1..n |-> i]
            /\ pos' = n
            /\ sample_pc' = "done"
            /\ k' = 0
            /\ limit' = lim
            /\ count' = 0
       ELSE IF IsliceRaises(LocalK(CHOOSE kv \in ka : TRUE, lim))
       THEN /\ sample_pc' = "raised"
            /\ k' = LocalK(CHOOSE kv \in ka : TRUE, lim)
            /\ limit' = IF lim = {} THEN {}
                        ELSE {(CHOOSE l \in lim : TRUE) - k'}
            /\ UNCHANGED <<pos, count, result>>
       ELSE SampleFill(n, CHOOSE kv \in ka : TRUE, lim)
    /\ UNCHANGED exceptSample

\* A probability, as the fraction num / den.
Chance(num, den) == [num |-> num, den |-> den]

\* Line 121: rand.random() is below 1.0 / count with this probability (the
\* whole of it when count is 1).
ReplaceChance(c) == Chance(1, c)

\* Line 122: rand.randint(0, k-1) picks each slot with this probability.
SlotChance(kv) == Chance(1, kv)

\* Line 120: enumerate starts at len(result), so the i-th item of the
\* stream, i > k, is paired with count = i - 1.
CountAt(i) == i - 1

\* The chance of two independent draws both falling as a and b say.
Times(a, b) == Chance(a.num * b.num, a.den * b.den)

\* The chance of the opposite outcome.
Complement(a) == Chance(a.den - a.num, a.den)

SameChance(a, b) == a.num * b.den = b.num * a.den

RECURSIVE InclusionChance(_, _, _)
\* The probability that the j-th item of the stream is in the reservoir once
\* streaming_sample, with k = kv >= 1, has taken in i >= j items: the first
\* kv go in (line 119); a later item goes in by the draw of line 121, and
\* then puts out an item held with the chance that line 122 draws its slot.
InclusionChance(j, i, kv) ==
    IF i <= kv THEN Chance(1, 1)
    ELSE IF j = i THEN ReplaceChance(CountAt(i))
    ELSE Times(InclusionChance(j, i - 1, kv),
               Complement(Times(ReplaceChance(CountAt(i)), SlotChance(kv))))

\* islice(seq, limit) of line 120 has another item to yield.
HasNext ==
    /\ pos < seq_len
    /\ \/ limit = {}
       \/ \E l \in limit : scanned < l

\* Line 121 divides by count before anything else happens to the item.
SampleRaise ==
    /\ sample_pc = "loop"
    /\ HasNext
    /\ count = 0
    /\ pos' = pos + 1
    /\ scanned' = scanned + 1
    /\ sample_pc' = "raised"
    /\ UNCHANGED <<seq_len, arg_k, arg_limit, k, limit, count, result>>
    /\ UNCHANGED exceptSample

\* Line 122 as result.append(x).
SampleReplaceAppend ==
    /\ sample_pc = "loop"
    /\ HasNext
    /\ count > 0
    /\ ReplaceChance(count).num > 0
    /\ result' = Append(result, pos + 1)
    /\ pos' = pos + 1
    /\ scanned' = scanned + 1
    /\ count' = count + 1
    /\ UNCHANGED <<sample_pc, seq_len, arg_k, arg_limit, k, limit>>
    /\ UNCHANGED exceptSample

\* rand.random() < 1.0 / count, and the item replaces slot randint(0, k-1).
SampleReplace ==
    /\ sample_pc = "loop"
    /\ HasNext
    /\ count > 0
    /\ ReplaceChance(count).num > 0
    /\ \E slot \in 0..(k - 1) :
          result' = [result EXCEPT ![slot + 1] = pos + 1]
    /\ pos' = pos + 1
    /\ scanned' = scanned + 1
    /\ count' = count + 1
    /\ UNCHANGED <<sample_pc, seq_len, arg_k, arg_limit, k, limit>>
    /\ UNCHANGED exceptSample

\* rand.random() >= 1.0 / count: random() is below 1.0, so this takes a
\* chance below 1, that is count above 1.
SampleDiscard ==
    /\ sample_pc = "loop"
    /\ HasNext
    /\ count > 0
    /\ ReplaceChance(count).num < ReplaceChance(count).den
    /\ pos' = pos + 1
    /\ scanned' = scanned + 1
    /\ count' = count + 1
    /\ UNCHANGED <<sample_pc, seq_len, arg_k, arg_limit, k, limit, result>>
    /\ UNCHANGED exceptSample

\* The loop is over: return result.
SampleReturn ==
    /\ sample_pc = "loop"
    /\ ~HasNext
    /\ sample_pc' = "done"
    /\ UNCHANGED <<seq_len, arg_k, arg_limit, pos, k, limit, scanned, count,
                   result>>
    /\ UNCHANGED exceptSample

SampleCall ==
    \E n \in 0..MaxSeqLen,
       ka \in {{}} \cup {{kv} : kv \in 0..MaxK},
       lim \in {{}} \cup {{l} : l \in 0..MaxLimit} :
        streaming_sample(n, ka, lim)

\* ----------------------------------------- the filter, then the sampler

\* The candidates the predicate returned True for, by position in the
\* stream, and the one that is the j-th of them.
Survivors == {i \in DOMAIN results : results[i]}

Survivor(j) ==
    CHOOSE i \in Survivors : Cardinality({h \in Survivors : h <= i}) = j

\* search_engines.py lines 57-59: the ifilter hands the next candidate of
\* the scan to the predicate.
FilterCandidate ==
    /\ sample_pc = "idle"
    /\ Len(stream) < MaxFiltered
    /\ \E fc \in {make_fc({d}) : d \in Digests} :
          accumulating_predicate(Len(stream) + 1, fc)
    /\ UNCHANGED fcs
    /\ UNCHANGED exceptFilter

\* search_engines.py line 60: streaming_sample(results, limit, limit * 10)
\* over what the ifilter yields once the scan is at its end.
SampleSurvivors ==
    /\ pc = "ready"
    /\ \E kv \in 0..MaxSampleK :
          streaming_sample(Cardinality(Survivors), {kv}, {kv * 10})

\* ------------------------------------------ filter_preds.already_labeled

\* already_labeled(label_store) has returned init_filter; it was not called.
LabelIdle ==
    /\ label_store = {}
    /\ labeled_pc = "new"
    /\ labeled_cids = {}
    /\ connected = 0
    /\ asked = <<>>
    /\ answers = <<>>

\* Lines 20-25: init_filter(query_content_id) of already_labeled.
already_labeled ==
    /\ labeled_pc = "new"
    /\ labeled_cids' = FarEnds(label_store, query_content_id)
    /\ connected' = connected + 1
    /\ labeled_pc' = "ready"
    /\ UNCHANGED <<label_store, asked, answers>>

\* Lines 23-24: p((content_id, fc)).
p(content_id) ==
    /\ labeled_pc = "ready"
    /\ asked' = Append(asked, content_id)
    /\ answers' = Append(answers,
           already_labeled_p(
               RejectionSet(labeled_cids, label_store, query_content_id),
               content_id))
    /\ UNCHANGED <<label_store, labeled_pc, labeled_cids, connected>>

\* The caller's init_filter call on its own.
LabelInitFilter == already_labeled /\ UNCHANGED exceptLabel

\* p is called for some candidate.
LabelEvaluate ==
    /\ Len(asked) < MaxCalls
    /\ \E content_id \in ContentIds : p(content_id)
    /\ UNCHANGED exceptLabel

\* Another request puts a label (routes.py, v1_label_put) while the
\* predicate is in use.
LabelPut ==
    /\ Cardinality(label_store) < MaxLabels
    /\ \E label \in Labels \ label_store :
          label_store' = label_store \cup {label}
    /\ UNCHANGED <<labeled_pc, labeled_cids, connected, asked, answers>>
    /\ UNCHANGED exceptLabel

\* ------------------------------------- concurrent near-duplicate filters

\* The init_filter calls of two concurrent requests.
Closures == {1, 2}

\* `accumulator = dict()` run as a default argument, once for all calls.
SharedDict(closure) == 1

\* Line 96, `accumulator = dict()`: every call of init_filter makes a dict
\* of its own, which its accumulating_predicate closes over.
DictOf(closure) == closure

ClosureFCs == {make_fc({d}) : d \in Digests}

\* No request has called init_filter.
ClosuresIdle ==
    /\ closures = [c \in Closures |->
                     [query_fc |-> NoneFC, pc |-> "idle",
                      stream |-> <<>>, results |-> <<>>]]
    /\ dicts = [c \in Closures |-> EmptyAccumulator]

\* Lines 93-99 and 123 for one request.
ClosureInitFilter(c) ==
    /\ closures[c].pc = "new"
    /\ closures' = [closures EXCEPT ![c].pc = "ready"]
    /\ dicts' = [dicts EXCEPT ![DictOf(c)] =
                   SeedAccumulator(get_string_counter(closures[c].query_fc),
                                   query_content_id)]
    /\ UNCHANGED exceptClosures

\* Lines 101-121 for one request's predicate.
ClosureEvaluate(c) ==
    /\ closures[c].pc = "ready"
    /\ Len(closures[c].stream) < MaxClosureStream
    /\ \E fc \in ClosureFCs :
          LET keys == get_string_counter(fc).keys
              content_id == Len(closures[c].stream) + 1
              accumulator_c == dicts[DictOf(c)]
          IN  /\ closures' =
                    [closures EXCEPT
                       ![c].stream = Append(@, [content_id |-> content_id,
                                                fc |-> fc]),
                       ![c].results =
                           Append(@, PredicateResult(accumulator_c, threshold,
                                                     keys))]
              /\ dicts' = [dicts EXCEPT ![DictOf(c)] =
                             PredicateAccumulator(accumulator_c, threshold,
                                                  keys, content_id)]
    /\ UNCHANGED exceptClosures

\* ------------------------------------------------- the limit parameter

\* A query parameter: not sent, text that is no integer, or an integer.
AbsentParam == [kind |-> "absent", value |-> 0]

TextParam == [kind |-> "text", value |-> 0]

IntParam(n) == [kind |-> "int", value |-> n]

\* int(v): the integer written in v; ValueError for other text, TypeError
\* for None.
IntOf(v) ==
    IF v.kind = "int" THEN [raises |-> FALSE, value |-> v.value]
    ELSE [raises |-> TRUE, value |-> 0]

Max(a, b) == IF a >= b THEN a ELSE b

\* routes.py lines 589-593.
str_to_max_int(v, maximum) ==
    IF IntOf(v).raises THEN maximum ELSE Min(maximum, IntOf(v).value)

\* interface.py lines 24-29, with cons = int; a parameter that is not
\* sent is read as the default.
param_num(v, default, minimum, maximum) ==
    LET n == IntOf(IF v.kind = "absent" THEN IntParam(default) ELSE v)
    IN  IF n.raises THEN default ELSE Min(maximum, Max(minimum, n.value))

\* The limit the request ends up with: v1_search's (line 153) or that of a
\* SearchEngine's param_schema (interface.py lines 40-43).
LimitOf(eng, v) ==
    IF eng = "v1_search" THEN str_to_max_int(v, RouteMaximum)
    ELSE param_num(v, SchemaDefault, SchemaMinimum, SchemaMaximum)

MaximumOf(eng) == IF eng = "v1_search" THEN RouteMaximum ELSE SchemaMaximum

\* The `limit` parameters a request may carry.
LimitParams ==
    {AbsentParam, TextParam}
      \cup {IntParam(n) : n \in (0 - MaxExcess)..MaxExcess}
      \cup {IntParam(n) : n \in (RouteMaximum - MaxExcess)
                                  ..(RouteMaximum + MaxExcess)}
      \cup {IntParam(n) : n \in (SchemaMaximum - MaxExcess)
                                  ..(SchemaMaximum + MaxExcess)}

\* routes.py line 153, or set_query_params of a SearchEngine.
ParseLimit ==
    /\ search_pc = "request"
    /\ search_limit' = LimitOf(engine, limit_param)
    /\ search_pc' = "parsed"
    /\ UNCHANGED <<engine, registered, filter_names, limit_param, upstream>>
    /\ UNCHANGED <<preds, cursor, verdicts>>
    /\ UNCHANGED <<filterVars, sampleVars, labelVars, closureVars>>
    /\ UNCHANGED restVars

\* routes.py line 155 with plain_index_scan as the engine, whose index scan
\* yields some candidates that all pass the filter.
LimitScan ==
    /\ search_pc = "parsed"
    /\ engine = "v1_search"
    /\ \E n \in 0..MaxSeqLen :
          streaming_sample(n, {search_limit}, {search_limit * 10})

\* ----------------------------------------------------- a search request

FilterNames == {"already_labeled", "nilsimsa_near_duplicates"}

Range(seq) == {seq[i] : i \in DOMAIN seq}

\* Line 137 without its `or ['already_labeled']`.
v1_search_named_only(names) == names

\* routes.py line 137: the filters v1_search selects.
v1_search_names(names) ==
    IF names = <<>> THEN <<"already_labeled">> ELSE names

\* interface.py lines 149-151: the filters create_filter_predicate selects.
create_filter_predicate_names(names, filters) ==
    IF Len(names) = 0 /\ "already_labeled" \in filters
    THEN <<"already_labeled">>
    ELSE names

SelectedNames(eng, names, filters) ==
    IF eng = "v1_search" THEN v1_search_names(names)
    ELSE create_filter_predicate_names(names, filters)

\* routes.py lines 146-148, interface.py lines 153-157: the list `preds`;
\* create_filter_predicate starts it with `lambda _: True`.
BuiltPreds(eng, selected) ==
    IF eng = "v1_search" THEN selected ELSE <<"true">> \o selected

\* What one sub-predicate does for a candidate, given the state it is
\* called in: "True", "False", or "raised" for a TypeError.
SubResult(pred, cand) ==
    IF pred = "true" THEN "True"
    ELSE IF pred = "already_labeled"
    THEN IF already_labeled_p(
                RejectionSet(labeled_cids, label_store, query_content_id),
                cand.content_id)
         THEN "True" ELSE "False"
    ELSE LET sim_feature == get_string_counter(cand.fc)
         IN  IF sim_feature = TypeError \/ sim_feature = NoneValue
             THEN "raised"
             ELSE IF PredicateResult(accumulator, threshold, sim_feature.keys)
                  THEN "True" ELSE "False"

RECURSIVE CallsOfAll(_, _)
\* all([p((cid, fc)) for p in preds]): the list is built before all() reads
\* it, so every sub-predicate is called.
CallsOfAll(ps, cand) ==
    IF ps = <<>> THEN <<>>
    ELSE LET ret == SubResult(Head(ps), cand)
         IN  IF ret = "raised"
             THEN <<[pred |-> Head(ps), ret |-> ret]>>
             ELSE <<[pred |-> Head(ps), ret |-> ret]>>
                    \o CallsOfAll(Tail(ps), cand)

RECURSIVE CallsOf(_, _)
\* all(p((cid, fc)) for p in preds): the calls made, in list order, up to
\* the first that does not return True.
CallsOf(ps, cand) ==
    IF ps = <<>> THEN <<>>
    ELSE LET ret == SubResult(Head(ps), cand)
         IN  IF ret = "True"
             THEN <<[pred |-> Head(ps), ret |-> ret]>> \o CallsOf(Tail(ps), cand)
             ELSE <<[pred |-> Head(ps), ret |-> ret]>>

\* `fc is not None and filter_pred((cid, fc))` (search_engines.py line 58,
\* interface.py line 158): no sub-predicate is called for a missing FC.
CombinedCalls(ps, cand) ==
    IF cand.fc.isNone THEN <<>> ELSE CallsOf(ps, cand)

Raised(calls) == \E i \in DOMAIN calls : calls[i].ret = "raised"

\* The filter expression without its `fc is not None`.
KeptWithoutFC(cand, calls) ==
    \A i \in DOMAIN calls : calls[i].ret = "True"

\* The value of the whole filter expression for the candidate.
Kept(cand, calls) ==
    /\ ~cand.fc.isNone
    /\ \A i \in DOMAIN calls : calls[i].ret = "True"

\* No search request is being served.
SearchIdle ==
    /\ engine = "v1_search"
    /\ registered = {}
    /\ filter_names = <<>>
    /\ limit_param = AbsentParam
    /\ search_limit = 0
    /\ upstream = <<>>
    /\ search_pc = "idle"
    /\ preds = <<>>
    /\ cursor = 0
    /\ verdicts = <<>>

\* routes.py lines 137-149 or interface.py lines 149-159: the filters are
\* selected, looked up and initialised in list order.  An unknown name ends
\* the request before any filter is initialised; a TypeError of the
\* near-duplicate filter's init_filter ends it where it is raised.
BuildPredicate ==
    /\ search_pc = "request"
    /\ LET selected == SelectedNames(engine, filter_names, registered)
           unknown == \E i \in DOMAIN selected : selected[i] \notin registered
           nd == "nilsimsa_near_duplicates" \in Range(selected)
           raises == nd /\ get_string_counter(query_fc) = TypeError
           al == /\ "already_labeled" \in Range(selected)
                 /\ raises => selected[1] = "already_labeled"
       IN  IF unknown
           THEN /\ search_pc' = "aborted"
                /\ preds' = <<>>
                /\ UNCHANGED <<filterVars, labelVars>>
           ELSE /\ search_pc' = IF raises THEN "raised" ELSE "built"
                /\ preds' = IF raises THEN <<>>
                            ELSE BuiltPreds(engine, selected)
                /\ IF al THEN already_labeled ELSE UNCHANGED labelVars
                /\ IF nd THEN init_filter ELSE UNCHANGED filterVars
    /\ UNCHANGED <<requestVars, cursor, verdicts>>
    /\ UNCHANGED <<sampleVars, closureVars, restVars>>

\* The filter expression applied to the next candidate of the index scan.
CandidateStep ==
    /\ cursor < Len(upstream)
    /\ LET cand == upstream[cursor + 1]
           calls == CombinedCalls(preds, cand)
       IN  /\ verdicts' = Append(verdicts, [called |-> calls,
                                            kept |-> Kept(cand, calls)])
           /\ search_pc' = IF Raised(calls) THEN "raised" ELSE search_pc
           /\ IF \E i \in DOMAIN calls : calls[i].pred = "already_labeled"
              THEN p(cand.content_id)
              ELSE UNCHANGED labelVars
           /\ IF \E i \in DOMAIN calls :
                     calls[i].pred = "nilsimsa_near_duplicates"
              THEN accumulating_predicate(cand.content_id, cand.fc)
                     /\ UNCHANGED fcs
              ELSE UNCHANGED filterVars
    /\ cursor' = cursor + 1
    /\ UNCHANGED <<requestVars, preds>>
    /\ UNCHANGED <<closureVars, restVars>>

\* A search engine built on SearchEngine filters its candidates with the
\* predicate create_filter_predicate returned.
EngineFilter ==
    /\ search_pc = "built"
    /\ engine = "create_filter_predicate"
    /\ CandidateStep
    /\ UNCHANGED sampleVars

\* plain_index_scan.__call__ (lines 56-60) up to the first read of the
\* stream: streaming_sample(results, limit, limit * 10), lines 115-118.
ScanCall ==
    /\ search_pc = "built"
    /\ engine = "v1_search"
    /\ search_pc' = "scan"
    /\ sample_pc' = "fill"
    /\ arg_k' = {search_limit}
    /\ arg_limit' = {search_limit * 10}
    /\ k' = Min(search_limit * 10, search_limit)
    /\ limit' = {search_limit * 10 - Min(search_limit * 10, search_limit)}
    /\ UNCHANGED <<seq_len, pos, scanned, count, result>>
    /\ UNCHANGED <<requestVars, preds, cursor, verdicts>>
    /\ UNCHANGED <<filterVars, labelVars, closureVars, restVars>>

\* Line 57 as filter(...): the scan is filtered whatever the sampler asks.
WantedAlways == TRUE

\* One of the islices of streaming_sample asks the ifilter for an item.
Wanted ==
    \/ sample_pc = "fill" /\ Len(result) < k
    \/ sample_pc = "loop" /\ \E l \in limit : scanned < l

\* ifilter (line 57) takes the next candidate and yields it if the filter
\* expression holds; seq_len counts what it has yielded.
ScanPull ==
    /\ search_pc = "scan"
    /\ Wanted
    /\ pos = seq_len
    /\ CandidateStep
    /\ seq_len' = IF verdicts'[Len(verdicts')].kept THEN seq_len + 1
                  ELSE seq_len
    /\ UNCHANGED <<sample_pc, arg_k, arg_limit, pos, k, limit, scanned, count,
                   result>>

\* streaming_sample catching the error and returning what it holds.
ScanFailReturnsPartial ==
    /\ search_pc = "scan"
    /\ Wanted
    /\ pos = seq_len
    /\ search_pc' = "failed"
    /\ sample_pc' = "done"
    /\ UNCHANGED <<requestVars, preds, cursor, verdicts>>
    /\ UNCHANGED <<seq_len, arg_k, arg_limit, pos, k, limit, scanned, count,
                   result>>
    /\ UNCHANGED <<filterVars, labelVars, closureVars, restVars>>

\* The ifilter asks for the next candidate and the read fails: the index
\* scan of streaming_ids or store.get(cid) (line 59) raises.  Neither the
\* generator, the ifilter, the islices nor streaming_sample catches
\* anything, so the exception leaves plain_index_scan.__call__.
ScanFail ==
    /\ search_pc = "scan"
    /\ Wanted
    /\ pos = seq_len
    /\ search_pc' = "failed"
    /\ UNCHANGED <<requestVars, preds, cursor, verdicts>>
    /\ UNCHANGED sampleVars
    /\ UNCHANGED <<filterVars, labelVars, closureVars, restVars>>

\* Line 119: islice(seq, k) hands the item yielded to list().
ScanFill ==
    /\ search_pc = "scan"
    /\ sample_pc = "fill"
    /\ pos < seq_len
    /\ result' = Append(result, pos + 1)
    /\ pos' = pos + 1
    /\ UNCHANGED <<sample_pc, seq_len, arg_k, arg_limit, k, limit, scanned,
                   count>>
    /\ UNCHANGED exceptSample

\* Line 119 is over, with k items or with the stream at its end; line 120
\* starts counting at len(result).
ScanFilled ==
    /\ search_pc = "scan"
    /\ sample_pc = "fill"
    /\ pos = seq_len
    /\ Len(result) = k \/ cursor = Len(upstream)
    /\ sample_pc' = "loop"
    /\ count' = Len(result)
    /\ UNCHANGED <<seq_len, arg_k, arg_limit, pos, k, limit, scanned, result>>
    /\ UNCHANGED exceptSample

\* Line 123, once the islice of line 120 has stopped: at the scan limit, or
\* with the index scan at its end.
ScanReturn ==
    /\ search_pc = "scan"
    /\ cursor = Len(upstream) \/ ~Wanted
    /\ SampleReturn

\* ------------------------------------------------ dossier.metrics

\* A value of Python's true division, as the fraction num / den.
Quotient(num, den) == [num |-> num, den |-> den]

\* nilsimsa_max_similarity has not been called.
MetricsIdle ==
    /\ sim_pc = "idle"
    /\ sim_fc1 = NoneFC
    /\ sim_fc2 = NoneFC
    /\ sim_pairs = <<>>
    /\ sim_compared = 0
    /\ sim_value = Quotient(0, 1)

\* utils.py lines 19-28: the feature at feature_name if it is a
\* StringCounter, else whatever is at DISPLAY_PREFIX + feature_name.
require_string_counter(fc) ==
    IF fc.plain.type = "StringCounter" THEN fc.plain ELSE fc.display

\* The truth value of a feature: None and an empty StringCounter are false.
Truthy(feature) ==
    IF feature.type = "None" THEN FALSE
    ELSE IF feature.type = "StringCounter" THEN feature.keys # {}
    ELSE TRUE

\* The orders in which a dict may hand out its keys.
Orderings(keys) ==
    {order \in [1..Cardinality(keys) -> keys] : Range(order) = keys}

\* itertools.product of two key lists: the last list varies fastest.
Product(keys1, keys2) ==
    [i \in 1..(Len(keys1) * Len(keys2)) |->
        <<keys1[((i - 1) \div Len(keys2)) + 1],
          keys2[((i - 1) % Len(keys2)) + 1]>>]

\* Line 32 for each pair of the product.
PairScores(pairs) ==
    [i \in DOMAIN pairs |-> compare_digests(pairs[i][1], pairs[i][2])]

\* Line 40 returning the score of the last pair.
LastOfScores(scores) == scores[Len(scores)]

RECURSIVE MaxOfScores(_)
\* max(scores) of line 40, scores being a non-empty list.
MaxOfScores(scores) ==
    IF Len(scores) = 1 THEN scores[1]
    ELSE LET rest == MaxOfScores(Tail(scores))
         IN  IF scores[1] >= rest THEN scores[1] ELSE rest

\* The pairs line 33 returns at.
PerfectPairs(pairs) ==
    {i \in DOMAIN pairs : PairScores(pairs)[i] = MaxScore}

\* Line 33 left out: every pair is compared.
ComparedAll(pairs) == Len(pairs)

\* The number of pairs the loop of lines 31-35 compares: up to the first
\* perfect match, or all of them.
Compared(pairs) ==
    IF PerfectPairs(pairs) = {} THEN Len(pairs)
    ELSE CHOOSE i \in PerfectPairs(pairs) :
             \A j \in PerfectPairs(pairs) : i <= j

\* Lines 30-40: what the kernel returns for the pairs in this order.
KernelValue(pairs) ==
    IF PerfectPairs(pairs) # {} THEN Quotient(1, 1)
    ELSE IF pairs = <<>> THEN Quotient(0, 1)
    ELSE Quotient(MaxOfScores(PairScores(pairs)), MaxScore)

\* nilsimsa_max_similarity(fc1, fc2, 'nilsimsa_all'), decorator included.
\* A feature that is no StringCounter has no keys(): AttributeError.
nilsimsa_max_similarity(fc1, fc2) ==
    /\ sim_pc = "idle"
    /\ sim_fc1' = fc1
    /\ sim_fc2' = fc2
    /\ LET f1 == require_string_counter(fc1)
           f2 == require_string_counter(fc2)
       IN  IF ~(Truthy(f1) /\ Truthy(f2))
           THEN /\ sim_pc' = "done"
                /\ sim_value' = Quotient(0, 1)
                /\ sim_pairs' = <<>>
                /\ sim_compared' = 0
           ELSE IF f1.type # "StringCounter" \/ f2.type # "StringCounter"
           THEN /\ sim_pc' = "raised"
                /\ UNCHANGED <<sim_value, sim_pairs, sim_compared>>
           ELSE \E keys1 \in Orderings(f1.keys), keys2 \in Orderings(f2.keys) :
                   /\ sim_pc' = "done"
                   /\ sim_pairs' = Product(keys1, keys2)
                   /\ sim_compared' = Compared(Product(keys1, keys2))
                   /\ sim_value' = KernelValue(Product(keys1, keys2))
    /\ UNCHANGED exceptMetrics

\* The digests the kernel is given: 0..MaxMetricDigest and their
\* complements.
MetricDigests == (0 - MaxMetricDigest - 1)..MaxMetricDigest

\* The feature collections it is called with: digests under
\* '#nilsimsa_all', and collections without such a StringCounter.
MetricFCs ==
    {make_fc(ks) : ks \in {s \in SUBSET MetricDigests :
                              Cardinality(s) <= MaxMetricKeys}}
      \cup {FeatureCollection(NoneValue, NoneValue),
            FeatureCollection(StringCounter({0}), NoneValue),
            FeatureCollection(OtherFeature, StringCounter({0})),
            FeatureCollection(OtherFeature, OtherFeature)}

\* Some caller compares two feature collections.
MetricsCall == \E fc1, fc2 \in MetricFCs : nilsimsa_max_similarity(fc1, fc2)

\* The caller is done with the value and compares again.
MetricsReset ==
    /\ sim_pc # "idle"
    /\ sim_pc' = "idle"
    /\ sim_fc1' = NoneFC
    /\ sim_fc2' = NoneFC
    /\ sim_pairs' = <<>>
    /\ sim_compared' = 0
    /\ sim_value' = Quotient(0, 1)
    /\ UNCHANGED exceptMetrics

\* ------------------------------------------- search_engines.random

\* The values of the NAME feature.
RandNames == {1, 2}

\* The content ids the NAME index holds.
RandIds == 1..MaxRandIds

\* store.get(content_id) of the query.
RandNone == [isNone |-> TRUE, names |-> {}]

RandFC(names) == [isNone |-> FALSE, names |-> names]

RandomIdle ==
    /\ rand_pc = "idle"
    /\ name_indexed = FALSE
    /\ rand_fc = RandNone
    /\ name_scan = [name \in RandNames |-> {}]
    /\ rand_store = {}
    /\ rand_pred = {}
    /\ rand_limit = 0
    /\ rand_results = <<>>

RECURSIVE Ascending(_)
\* The ids an index scan yields, in key order.
Ascending(ids) ==
    IF ids = {} THEN <<>>
    ELSE LET least == CHOOSE i \in ids : \A j \in ids : i <= j
         IN  <<least>> \o Ascending(ids \ {least})

RECURSIVE ScanNames(_)
\* Lines 35-37: cids.extend(store.index_scan(u'NAME', name)) per name.
ScanNames(names) ==
    IF names = {} THEN <<>>
    ELSE LET name == CHOOSE n \in names : \A m \in names : n <= m
         IN  Ascending(name_scan[name]) \o ScanNames(names \ {name})

\* Lines 38-40: the (cid, fc) of get_many with an FC that filter_pred
\* accepts.
RandFiltered(ids) ==
    SelectSeq(ids, LAMBDA cid : cid \in rand_store /\ cid \in rand_pred)

\* Line 41: the orders rand.shuffle may leave the list in.
Shuffles(list) ==
    {[i \in DOMAIN list |-> list[perm[i]]] : perm \in Permutations(DOMAIN list)}

\* Line 42: list[0:stop]; a negative stop counts from the end.
SliceTo(list, stop) ==
    IF stop >= 0 THEN SubSeq(list, 1, Min(stop, Len(list)))
    ELSE SubSeq(list, 1, Max(0, Len(list) + stop))

\* random(store)(content_id, filter_pred, limit), lines 28-42.
random ==
    /\ rand_pc = "idle"
    /\ IF ~name_indexed
       THEN /\ rand_pc' = "done"
            /\ rand_results' = <<>>
       ELSE IF rand_fc.isNone
       THEN /\ rand_pc' = "raised"
            /\ rand_results' = <<>>
       ELSE /\ rand_pc' = "done"
            /\ \E shuffled \in
                      Shuffles(RandFiltered(ScanNames(rand_fc.names))) :
                  rand_results' = SliceTo(shuffled, rand_limit)
    /\ UNCHANGED <<name_indexed, rand_fc, name_scan, rand_store, rand_pred,
                   rand_limit>>
    /\ UNCHANGED exceptRandom

\* ----------------------------------- plain_index_scan.streaming_ids

\* store.index_names().
IndexNames == <<1, 2>>

\* The values a feature of the query may hold.
IndexValues == {1, 2}

\* The content ids an index may hold; the query's own is among them.
ScanIds == 0..MaxScanIds

\* query_fc.get(idx_name, None): a unicode string, a StringCounter or
\* SparseVector with keys `vals`, or anything else (None included).
Unicode(val) == [kind |-> "unicode", vals |-> {val}]

Counter(vals) == [kind |-> "counter", vals |-> vals]

Unindexed == [kind |-> "other", vals |-> {}]

IndexFeatures ==
    {Unindexed} \cup {Unicode(val) : val \in IndexValues}
       \cup {Counter(vals) : vals \in SUBSET IndexValues}

\* get_query_fc(content_id), lines 62-66.
NoQueryFC == [isNone |-> TRUE, feats |-> <<Unindexed, Unindexed>>]

QueryFeatures(feats) == [isNone |-> FALSE, feats |-> feats]

IdsIdle ==
    /\ ids_pc = "idle"
    /\ ids_query = NoQueryFC
    /\ ids_plan = <<>>
    /\ cids = {}
    /\ blacklist = {}
    /\ ids_read = <<>>
    /\ ids_yielded = <<>>

\* Lines 84-94: the scans one index name gives rise to, in the order
\* feat.iterkeys() hands out the keys.
ScansOf(idx_name, feat) ==
    IF feat.kind = "other" THEN {<<>>}
    ELSE {[i \in DOMAIN order |-> <<idx_name, order[i]>>] :
             order \in Orderings(feat.vals)}

RECURSIVE Plans(_, _)
\* Lines 82-94: the scans of a call, index name by index name.
Plans(names, feats) ==
    IF names = <<>> THEN {<<>>}
    ELSE {first \o rest :
             first \in ScansOf(Head(names), feats[Head(names)]),
             rest \in Plans(Tail(names), feats)}

\* streaming_ids(content_id) up to its first scan, lines 75-82.
streaming_ids ==
    /\ ids_pc = "idle"
    /\ IF ids_query.isNone
       THEN /\ ids_pc' = "done"
            /\ UNCHANGED <<ids_plan, cids, blacklist>>
       ELSE /\ blacklist' = {query_content_id}
            /\ cids' = {}
            /\ \E plan \in Plans(IndexNames, ids_query.feats) :
                  /\ ids_plan' = plan
                  /\ ids_pc' = IF plan = <<>> THEN "done" ELSE "scan"
    /\ UNCHANGED <<ids_query, ids_read, ids_yielded>>
    /\ UNCHANGED exceptIds

\* The test of line 71 left out.
ScanYieldsAll(cid) == TRUE

\* Line 71: the id is yielded if it is neither seen nor blacklisted.
ScanYields(cid) == cid \notin cids /\ cid \notin blacklist

\* scan(idx_name, val), lines 69-73: the index scan yields another id.
scan ==
    /\ ids_pc = "scan"
    /\ Len(ids_read) < MaxScanned
    /\ \E cid \in ScanIds :
          /\ ids_read' = Append(ids_read, cid)
          /\ IF ScanYields(cid)
             THEN /\ cids' = cids \cup {cid}
                  /\ ids_yielded' = Append(ids_yielded, cid)
             ELSE UNCHANGED <<cids, ids_yielded>>
    /\ UNCHANGED <<ids_pc, ids_query, ids_plan, blacklist>>
    /\ UNCHANGED exceptIds

\* The index scan of line 70 is exhausted: on to the next one, or return.
ScanExhausted ==
    /\ ids_pc = "scan"
    /\ ids_plan' = Tail(ids_plan)
    /\ ids_pc' = IF Tail(ids_plan) = <<>> THEN "done" ELSE "scan"
    /\ UNCHANGED <<ids_query, cids, blacklist, ids_read, ids_yielded>>
    /\ UNCHANGED exceptIds

\* plain_index_scan.__call__, lines 56-60, over the ids streaming_ids
\* yields, each stored and accepted by the filter.
IndexScanSample ==
    /\ ids_pc = "done"
    /\ \E lim \in 0..MaxSearchLimit :
          streaming_sample(Len(ids_yielded), {lim}, {lim * 10})

\* -------------------------------------------------------- folder.py

\* Folders.DEFAULT_ANNOTATOR_ID, line 50.
DEFAULT_ANNOTATOR_ID == <<"u", "n", "k", "n", "o", "w", "n">>

\* The ann_id argument: None, or a string.
NoAnnotator == [given |-> FALSE, id |-> <<>>]

Annotator(id) == [given |-> TRUE, id |-> id]

\* _annotator(ann_id), lines 205-207.
annotator(ann_id) == IF ann_id.given THEN ann_id.id ELSE DEFAULT_ANNOTATOR_ID

\* Line 211 testing for the space only.
assert_no_space(ident) == " " \notin Range(ident)

\* assert_valid_folder_id(ident), lines 210-212: TRUE when it does not raise.
assert_valid_folder_id(ident) ==
    ~(" " \in Range(ident) \/ "/" \in Range(ident))

\* urllib.quote(ch, safe='~') of one character: letters, digits and
\* '_.-~' stay, anything else becomes its %XX escape.
QuoteChar(ch) ==
    CASE ch = " " -> <<"%", "2", "0">>
      [] ch = "/" -> <<"%", "2", "F">>
      [] ch = "%" -> <<"%", "2", "5">>
      [] ch = "|" -> <<"%", "7", "C">>
      [] OTHER -> <<ch>>

RECURSIVE quote(_)
\* urllib.quote(string, safe='~').
quote(string) ==
    IF string = <<>> THEN <<>>
    ELSE QuoteChar(Head(string)) \o quote(Tail(string))

\* The character a %XX escape stands for; "" when it is none of the
\* escapes quote produces here.
Escaped(hi, lo) ==
    CASE hi = "2" /\ lo = "0" -> " "
      [] hi = "2" /\ lo = "F" -> "/"
      [] hi = "2" /\ lo = "5" -> "%"
      [] hi = "7" /\ lo = "C" -> "|"
      [] OTHER -> ""

RECURSIVE unquote(_)
\* urllib.unquote(string).
unquote(string) ==
    IF string = <<>> THEN <<>>
    ELSE IF /\ Head(string) = "%"
            /\ Len(string) >= 3
            /\ Escaped(string[2], string[3]) # ""
    THEN <<Escaped(string[2], string[3])>>
            \o unquote(SubSeq(string, 4, Len(string)))
    ELSE <<Head(string)>> \o unquote(Tail(string))

RECURSIVE Join(_)
\* '|'.join(parts).
Join(parts) ==
    IF Len(parts) = 1 THEN parts[1]
    ELSE parts[1] \o <<"|">> \o Join(Tail(parts))

RECURSIVE Split(_)
\* string.split('|').
Split(string) ==
    IF "|" \notin Range(string) THEN <<string>>
    ELSE LET bar == CHOOSE i \in DOMAIN string :
                       /\ string[i] = "|"
                       /\ \A j \in 1..(i - 1) : string[j] # "|"
         IN  <<SubSeq(string, 1, bar - 1)>>
                \o Split(SubSeq(string, bar + 1, Len(string)))

\* string.startswith(prefix).
StartsWith(string, prefix) ==
    /\ Len(prefix) <= Len(string)
    /\ SubSeq(string, 1, Len(prefix)) = prefix

Topic == <<"t", "o", "p", "i", "c">>

\* wrap_folder_content_id with the annotator left out of the content id.
wrap_folder_any_annotator(annotator_id, fid) ==
    Join(<<Topic, quote(DEFAULT_ANNOTATOR_ID), quote(fid)>>)

\* wrap_folder_content_id(annotator_id, fid), lines 223-228.
wrap_folder_content_id(annotator_id, fid) ==
    Join(<<Topic, quote(annotator_id), quote(fid)>>)

\* unwrap_folder_content_id(cid), lines 231-236, for a content id of three
\* parts.
unwrap_folder_content_id(cid) ==
    [annotator_id |-> unquote(Split(cid)[2]),
     folder_id |-> unquote(Split(cid)[3])]

\* wrap_subfolder_subtopic_id(sfid), lines 239-240.
wrap_subfolder_subtopic_id(sfid) == sfid

\* Label(content_id1, content_id2, annotator_id, CorefValue.Positive,
\* subtopic_id1=..., subtopic_id2=...).
Label(content_id1, content_id2, annotator_id, subtopic_id1, subtopic_id2) ==
    [content_id1 |-> content_id1, subtopic_id1 |-> subtopic_id1,
     content_id2 |-> content_id2, subtopic_id2 |-> subtopic_id2,
     annotator_id |-> annotator_id]

\* Whether the label has cid as one of its content ids.
LabelHas(lab, cid) == lab.content_id1 = cid \/ lab.content_id2 = cid

\* lab.other(cid), for a label that has cid.
LabelOther(lab, cid) ==
    IF lab.content_id1 = cid THEN lab.content_id2 ELSE lab.content_id1

\* lab.subtopic_for(cid), for a label that has cid.
subtopic_for(lab, cid) ==
    IF lab.content_id1 = cid THEN lab.subtopic_id1 ELSE lab.subtopic_id2

\* The two (content_id, subtopic_id) a label connects.
IdentsOf(lab) ==
    {<<lab.content_id1, lab.subtopic_id1>>,
     <<lab.content_id2, lab.subtopic_id2>>}

\* label_store.directly_connected(cid) for a content id: the labels that
\* have it, whatever their subtopics.
LabelsOf(cid) == {lab \in folder_labels : LabelHas(lab, cid)}

\* label_store.directly_connected(ident) for a (content_id, subtopic_id).
LabelsAt(ident) == {lab \in folder_labels : ident \in IdentsOf(lab)}

RECURSIVE Reached(_)
\* The idents connected_component visits, from those it has visited.
Reached(idents) ==
    LET more == UNION {IdentsOf(lab) : lab \in UNION {LabelsAt(ident) :
                                                       ident \in idents}}
    IN  IF more \subseteq idents THEN idents ELSE Reached(idents \cup more)

\* label_store.connected_component(ident): the labels reached by following
\* labels from ident, those of ident itself first.
connected_component(ident) ==
    UNION {LabelsAt(at) : at \in Reached({ident})}

\* Nothing was yielded.
NoYield == [v \in {} |-> 0]

\* nub with the test of lines 255-256 left out.
nub_keeps_all(it) == it

\* nub(it), lines 247-258, of an iterable that yields each value as often
\* as `it` says: each once (short distinct strings have distinct hashes).
nub(it) == [v \in DOMAIN it |-> 1]

\* What folders(ann_id) yields, lines 74-78: the prefix is built from the
\* annotator id as given, the stored ids from its quoted form.
FoldersYield(ann_id) ==
    LET prefix == Join(<<Topic, annotator(ann_id), <<>>>>)
        found == {cid \in fc_store : StartsWith(cid, prefix)}
        names == {<<unwrap_folder_content_id(cid).folder_id>> : cid \in found}
    IN  [v \in names |->
            Cardinality({cid \in found :
                            <<unwrap_folder_content_id(cid).folder_id>> = v})]

\* What subfolders(folder_id, ann_id) yields past its checks, lines 96-97.
SubfoldersYield(folder_cid) ==
    LET labs == LabelsOf(folder_cid)
        found == {<<subtopic_for(lab, folder_cid)>> : lab \in labs}
    IN  nub([v \in found |->
                Cardinality({lab \in labs :
                                <<subtopic_for(lab, folder_cid)>> = v})])

\* The labels of the component of ident for which lines 152-154 yield.
ItemLabels(folder_cid, ident) ==
    {lab \in connected_component(ident) : LabelHas(lab, folder_cid)}

\* The item lines 152-154 yield for a label.
ItemOf(lab, folder_cid) ==
    <<LabelOther(lab, folder_cid),
      subtopic_for(lab, LabelOther(lab, folder_cid))>>

\* What lines 151-154 yield for the labels `labs` of the component.
ItemsYield(labs, folder_cid) ==
    LET found == {ItemOf(lab, folder_cid) : lab \in labs}
    IN  [v \in found |->
            Cardinality({lab \in labs : ItemOf(lab, folder_cid) = v})]

\* lab.other(folder_cid) raises KeyError for a label of the component that
\* does not have folder_cid (line 152).
ItemsRaises(folder_cid, ident) ==
    \E lab \in connected_component(ident) : ~LabelHas(lab, folder_cid)

\* The labels line 151 may have produced when the loop ends: all of the
\* component when no label raises; else the labels of ident itself, which
\* come first and all have folder_cid, and any of the others that have it,
\* as the order in which the component is walked decides.
ItemsSeen(folder_cid, ident) ==
    {labs \in SUBSET ItemLabels(folder_cid, ident) :
        /\ LabelsAt(ident) \subseteq labs
        /\ ItemsRaises(folder_cid, ident) \/ labs = ItemLabels(folder_cid, ident)}

\* The record of a call.
Call(op, folder_id, subfolder_id, content_id, subtopic_id, ann_id, outcome, yielded) ==
    [op |-> op, folder_id |-> folder_id, subfolder_id |-> subfolder_id,
     content_id |-> content_id, subtopic_id |-> subtopic_id,
     ann_id |-> ann_id, outcome |-> outcome, yielded |-> yielded]

FoldersIdle ==
    /\ fc_store = {}
    /\ folder_labels = {}
    /\ folder_call = Call("none", <<>>, <<>>, <<>>, <<>>, NoAnnotator, "ok",
                          NoYield)

\* folders(ann_id), lines 64-78.
folders(ann_id) ==
    /\ folder_call' = Call("folders", <<>>, <<>>, <<>>, <<>>, ann_id, "ok",
                           FoldersYield(ann_id))
    /\ UNCHANGED <<fc_store, folder_labels>>

\* subfolders(folder_id, ann_id), lines 80-97.
subfolders(folder_id, ann_id) ==
    LET folder_cid == wrap_folder_content_id(annotator(ann_id), folder_id)
        outcome == IF ~assert_valid_folder_id(folder_id) THEN "ValueError"
                   ELSE IF folder_cid \notin fc_store THEN "KeyError"
                   ELSE "ok"
    IN  /\ folder_call' =
              Call("subfolders", folder_id, <<>>, <<>>, <<>>, ann_id, outcome,
                   IF outcome = "ok" THEN SubfoldersYield(folder_cid)
                   ELSE NoYield)
        /\ UNCHANGED <<fc_store, folder_labels>>

\* items(folder_id, subfolder_id, ann_id), lines 126-154, iterated to its
\* end: a generator, so that its checks run when it is first iterated.
items(folder_id, subfolder_id, ann_id) ==
    LET folder_cid == wrap_folder_content_id(annotator(ann_id), folder_id)
        subfolder_sid == wrap_subfolder_subtopic_id(subfolder_id)
        ident == <<folder_cid, subfolder_sid>>
        checked == IF \/ ~assert_valid_folder_id(folder_id)
                      \/ ~assert_valid_folder_id(subfolder_id)
                   THEN "ValueError"
                   ELSE IF folder_cid \notin fc_store THEN "KeyError"
                   ELSE "ok"
    IN  /\ \E labs \in ItemsSeen(folder_cid, ident) :
              folder_call' =
                  Call("items", folder_id, subfolder_id, <<>>, <<>>, ann_id,
                       IF checked = "ok" /\ ItemsRaises(folder_cid, ident)
                       THEN "KeyError" ELSE checked,
                       IF checked = "ok" THEN ItemsYield(labs, folder_cid)
                       ELSE NoYield)
        /\ UNCHANGED <<fc_store, folder_labels>>

\* add_folder(folder_id, ann_id), lines 156-170.
add_folder(folder_id, ann_id) ==
    LET cid == wrap_folder_content_id(annotator(ann_id), folder_id)
    IN  IF ~assert_valid_folder_id(folder_id)
        THEN /\ folder_call' = Call("add_folder", folder_id, <<>>, <<>>, <<>>,
                                    ann_id, "ValueError", NoYield)
             /\ UNCHANGED <<fc_store, folder_labels>>
        ELSE /\ folder_call' = Call("add_folder", folder_id, <<>>, <<>>, <<>>,
                                    ann_id, "ok", NoYield)
             /\ fc_store' = fc_store \cup {cid}
             /\ UNCHANGED folder_labels

\* add_item(folder_id, subfolder_id, content_id, subtopic_id, ann_id),
\* lines 172-203.
add_item(folder_id, subfolder_id, content_id, subtopic_id, ann_id) ==
    LET folder_cid == wrap_folder_content_id(annotator(ann_id), folder_id)
        subfolder_sid == wrap_subfolder_subtopic_id(subfolder_id)
        lab == Label(folder_cid, content_id, annotator(ann_id), subfolder_sid,
                     subtopic_id)
        outcome == IF \/ ~assert_valid_folder_id(folder_id)
                      \/ ~assert_valid_folder_id(subfolder_id)
                   THEN "ValueError"
                   ELSE IF folder_cid \notin fc_store THEN "KeyError"
                   ELSE "ok"
    IN  /\ folder_call' = Call("add_item", folder_id, subfolder_id,
                               content_id, subtopic_id, ann_id, outcome,
                               NoYield)
        /\ folder_labels' = IF outcome = "ok"
                            THEN folder_labels \cup {lab}
                            ELSE folder_labels
        /\ Cardinality(folder_labels') <= MaxFolderLabels
        /\ UNCHANGED fc_store

\* The folder and subfolder ids callers pass: well-formed ones, and ones
\* with a space or a slash.
FolderIds == {<<"f">>, <<"g">>, <<"f", " ">>}

SubfolderIds == {<<"s">>, <<"t">>, <<"s", "/">>}

\* The annotators: none given (the default annotator, whose id quote leaves
\* alone), one whose id quote escapes, and one whose id is that escaped
\* form.
AnnotatorIds ==
    {NoAnnotator, Annotator(<<"a", " ">>), Annotator(<<"a", "%", "2", "0">>)}

\* The items: (content_id, subtopic_id).
FolderItems == {<<<<"c">>, <<"x">>>>, <<<<"d">>, <<"x">>>>}

\* No call is under way.
NoCall ==
    Call("none", <<>>, <<>>, <<>>, <<>>, NoAnnotator, "ok", NoYield)

FoldersCall ==
    /\ folder_call = NoCall
    /\ \E ann_id \in AnnotatorIds : folders(ann_id)
    /\ UNCHANGED exceptFolders

SubfoldersCall ==
    /\ folder_call = NoCall
    /\ \E folder_id \in FolderIds, ann_id \in AnnotatorIds :
          subfolders(folder_id, ann_id)
    /\ UNCHANGED exceptFolders

ItemsCall ==
    /\ folder_call = NoCall
    /\ \E folder_id \in FolderIds, subfolder_id \in SubfolderIds,
          ann_id \in AnnotatorIds :
          items(folder_id, subfolder_id, ann_id)
    /\ UNCHANGED exceptFolders

AddFolderCall ==
    /\ folder_call = NoCall
    /\ \E folder_id \in FolderIds, ann_id \in AnnotatorIds :
          add_folder(folder_id, ann_id)
    /\ UNCHANGED exceptFolders

AddItemCall ==
    /\ folder_call = NoCall
    /\ \E folder_id \in FolderIds, subfolder_id \in SubfolderIds,
          item \in FolderItems, ann_id \in AnnotatorIds :
          add_item(folder_id, subfolder_id, item[1], item[2], ann_id)
    /\ UNCHANGED exceptFolders

\* The caller has what the call gave it and goes on.
FolderReturn ==
    /\ folder_call # NoCall
    /\ folder_call' = NoCall
    /\ UNCHANGED <<fc_store, folder_labels>>
    /\ UNCHANGED exceptFolders

\* ------------------------------------------- arbitrary content ids

\* A short stream whose candidates come under any content id: the query's,
\* or one an earlier candidate came under.
EvaluateAnyId ==
    /\ Len(stream) < MaxStream
    /\ \E content_id \in ContentIds, fc \in ClosureFCs \cup {make_fc({})} :
          accumulating_predicate(content_id, fc)
    /\ UNCHANGED fcs
    /\ UNCHANGED exceptFilter

\* ------------------------------------------- the thresholded kernel

\* nilsimsa.compare_digests(hash1, hash2, threshold=thr): the score, or,
\* when the score is below the threshold, possibly a value below the score
\* (the comparison stopped early).
ThresholdedScores(hash1, hash2, thr) ==
    LET score == compare_digests(hash1, hash2)
    IN  IF score >= thr THEN {score}
        ELSE {score, Max(0 - MaxScore, score - 1), 0 - MaxScore}

\* What the kernel may return for the pairs of product(sim_feature,
\* accumulator), line 111.
KernelReturns(keys, held, thr) ==
    LET values == UNION {ThresholdedScores(pair[1], pair[2], thr) :
                            pair \in keys \X held}
    IN  {score \in [keys \X held -> values] :
            \A pair \in keys \X held :
                score[pair] \in ThresholdedScores(pair[1], pair[2], thr)}

\* Line 113 with `>=` for `>`.
NearDuplicateByAtThreshold(score, thr) ==
    \E pair \in DOMAIN score : score[pair] >= thr

\* Lines 111-115 on the values the kernel returned.
NearDuplicateBy(score, thr) ==
    \E pair \in DOMAIN score : score[pair] > thr

\* What accumulating_predicate returns, given what the kernel returned.
ThresholdedResult(score, acc, thr, keys) ==
    IF ExactMatch(keys, acc) THEN FALSE
    ELSE IF NearDuplicateBy(score, thr) THEN FALSE
    ELSE TRUE

\* accumulating_predicate((content_id, fc)), lines 101-121, with the kernel
\* of line 112 free to stop early.
accumulating_predicate_thresholded(content_id, fc) ==
    /\ pc = "ready"
    /\ stream' = Append(stream, [content_id |-> content_id, fc |-> fc])
    /\ LET sim_feature == get_string_counter(fc)
       IN  IF sim_feature = TypeError \/ sim_feature = NoneValue
           THEN /\ pc' = "raised"
                /\ kernelCalled' = FALSE
                /\ UNCHANGED <<accumulator, results, returned>>
           ELSE \E score \in KernelReturns(sim_feature.keys,
                                            DOMAIN accumulator, threshold) :
                   LET kept == ThresholdedResult(score, accumulator,
                                                 threshold, sim_feature.keys)
                   IN  /\ pc' = "ready"
                       /\ results' = Append(results, kept)
                       /\ accumulator' =
                              IF kept
                              THEN Accumulate(accumulator, sim_feature.keys,
                                              content_id)
                              ELSE accumulator
                       /\ kernelCalled' =
                              PredicateCompares(accumulator, sim_feature.keys)
                       /\ returned' =
                              IF ExactMatch(sim_feature.keys, accumulator)
                              THEN NoScores ELSE score
    /\ UNCHANGED <<threshold, query_fc, texts>>

\* A stream of candidates that carry one digest each, or none.
ThresholdedEvaluate ==
    /\ Len(stream) < MaxStream
    /\ \E fc \in ClosureFCs \cup {make_fc({})} :
          accumulating_predicate_thresholded(Len(stream) + 1, fc)
    /\ UNCHANGED fcs
    /\ UNCHANGED exceptFilter

\* ------------------------------------------------------ specifications

Init ==
    /\ FilterInit(Thresholds(Digests), QueryFCs)
    /\ SampleIdle
    /\ LabelIdle
    /\ ClosuresIdle
    /\ MetricsIdle
    /\ RandomIdle
    /\ IdsIdle
    /\ FoldersIdle
    /\ SearchIdle

Next == InitFilter \/ Evaluate

\* The near-duplicate predicate on short streams of arbitrary candidates.
Spec == Init /\ [][Next]_vars

StreamInit ==
    /\ FilterInit(Thresholds(StreamDigests), StreamQueryFCs)
    /\ SampleIdle
    /\ LabelIdle
    /\ ClosuresIdle
    /\ MetricsIdle
    /\ RandomIdle
    /\ IdsIdle
    /\ FoldersIdle
    /\ SearchIdle

StreamNext == InitFilter \/ EvaluateSingle

\* The near-duplicate predicate on longer streams of one-digest candidates.
StreamSpec == StreamInit /\ [][StreamNext]_vars

TextLists == UNION {[1..n -> StreamDigests] : n \in 1..MaxTexts}

RepeatInit ==
    /\ threshold \in Thresholds(StreamDigests)
    /\ \E list \in TextLists, n \in 1..MaxRepeat : TestSetup(list, n)
    /\ SampleIdle
    /\ LabelIdle
    /\ ClosuresIdle
    /\ MetricsIdle
    /\ RandomIdle
    /\ IdsIdle
    /\ FoldersIdle
    /\ SearchIdle

RepeatNext == InitFilter \/ FilterNext

\* The near-duplicate predicate on a repeated list of texts, the first of
\* them being the query.
RepeatSpec == RepeatInit /\ [][RepeatNext]_vars

\* No filter has been built.
FilterIdle ==
    /\ threshold = MaxScore
    /\ query_fc = NoneFC
    /\ pc = "new"
    /\ accumulator = EmptyAccumulator
    /\ stream = <<>>
    /\ results = <<>>
    /\ kernelCalled = FALSE
    /\ returned = NoScores
    /\ texts = <<>>
    /\ fcs = <<>>

SampleInit ==
    /\ FilterIdle
    /\ SampleIdle
    /\ LabelIdle
    /\ ClosuresIdle
    /\ MetricsIdle
    /\ RandomIdle
    /\ IdsIdle
    /\ FoldersIdle
    /\ SearchIdle

SampleNext ==
    SampleCall \/ SampleRaise \/ SampleReplace \/ SampleDiscard \/ SampleReturn

\* One call of streaming_sample.
SampleSpec == SampleInit /\ [][SampleNext]_vars

LabelInit ==
    /\ FilterIdle
    /\ SampleIdle
    /\ ClosuresIdle
    /\ MetricsIdle
    /\ RandomIdle
    /\ IdsIdle
    /\ FoldersIdle
    /\ SearchIdle
    /\ label_store \in {s \in SUBSET Labels : Cardinality(s) <= MaxLabels}
    /\ labeled_pc = "new"
    /\ labeled_cids = {}
    /\ connected = 0
    /\ asked = <<>>
    /\ answers = <<>>

LabelNext == LabelInitFilter \/ LabelEvaluate \/ LabelPut

\* The already_labeled predicate, with labels being put meanwhile.
LabelSpec == LabelInit /\ [][LabelNext]_vars

\* Two requests are about to call init_filter, each for its own query.
ConcurrentInit ==
    /\ FilterInit(Thresholds(Digests), {NoneFC})
    /\ SampleIdle
    /\ LabelIdle
    /\ closures \in [Closures ->
                       [query_fc : ClosureFCs \cup {make_fc({})},
                        pc : {"new"}, stream : {<<>>}, results : {<<>>}]]
    /\ dicts = [c \in Closures |-> EmptyAccumulator]
    /\ MetricsIdle
    /\ RandomIdle
    /\ IdsIdle
    /\ FoldersIdle
    /\ SearchIdle

ConcurrentNext == \E c \in Closures : ClosureInitFilter(c) \/ ClosureEvaluate(c)

\* The near-duplicate predicates of two requests served at the same time.
ConcurrentSpec == ConcurrentInit /\ [][ConcurrentNext]_vars

\* What store.get(cid) returns for a candidate: nothing, an FC with a digest
\* within the threshold of the query's, one with a digest that is not, one
\* without digests.
SearchFCs ==
    {NoneFC, make_fc({1}), make_fc({3}), FeatureCollection(NoneValue, NoneValue)}

\* The index scan's candidates: distinct ids, none of them the query's.
Upstreams ==
    UNION {{[i \in 1..n |-> [content_id |-> i, fc |-> f[i]]] :
               f \in [1..n -> SearchFCs]} : n \in 0..MaxUpstream}

NameLists ==
    {<<>>, <<"already_labeled">>, <<"nilsimsa_near_duplicates">>,
     <<"already_labeled", "nilsimsa_near_duplicates">>,
     <<"nilsimsa_near_duplicates", "already_labeled">>}

\* A request arrives: the query is stored or not (then the index scan
\* yields nothing), the first candidate is labelled with it or not.  The
\* application registers already_labeled if it is given no filters at all
\* (run.py line 113); a SearchEngine starts with none (interface.py line 96).
SearchInit ==
    /\ threshold = MaxScore - 2
    /\ query_fc \in {make_fc({0}), NoneFC}
    /\ pc = "new"
    /\ accumulator = EmptyAccumulator
    /\ stream = <<>>
    /\ results = <<>>
    /\ kernelCalled = FALSE
    /\ returned = NoScores
    /\ texts = <<>>
    /\ fcs = <<>>
    /\ SampleIdle
    /\ label_store \in {{}, {<<1, query_content_id>>}}
    /\ labeled_pc = "new"
    /\ labeled_cids = {}
    /\ connected = 0
    /\ asked = <<>>
    /\ answers = <<>>
    /\ ClosuresIdle
    /\ MetricsIdle
    /\ RandomIdle
    /\ IdsIdle
    /\ FoldersIdle
    /\ engine \in {"v1_search", "create_filter_predicate"}
    /\ registered \in SUBSET FilterNames
    /\ engine = "v1_search" => registered # {}
    /\ filter_names \in NameLists
    /\ search_limit \in 0..MaxSearchLimit
    /\ limit_param = IntParam(search_limit)
    /\ upstream \in Upstreams
    /\ query_fc.isNone => upstream = <<>>
    /\ search_pc = "request"
    /\ preds = <<>>
    /\ cursor = 0
    /\ verdicts = <<>>

SearchNext ==
    \/ BuildPredicate
    \/ EngineFilter
    \/ ScanCall
    \/ ScanPull
    \/ ScanFail
    \/ ScanFill
    \/ ScanFilled
    \/ SampleReplace
    \/ SampleDiscard
    \/ ScanReturn

\* One search request, from its parameters to the sample returned.
SearchSpec == SearchInit /\ [][SearchNext]_vars

ScenarioInit ==
    /\ FilterInit(Thresholds(Digests),
                  {make_fc(ks) : ks \in {{}} \cup {{d} : d \in Digests}})
    /\ SampleIdle
    /\ LabelIdle
    /\ ClosuresIdle
    /\ MetricsIdle
    /\ RandomIdle
    /\ IdsIdle
    /\ FoldersIdle
    /\ SearchIdle

ScenarioNext ==
    \/ InitFilter
    \/ FilterCandidate
    \/ SampleSurvivors
    \/ SampleReplace
    \/ SampleDiscard
    \/ SampleReturn

\* A stream of one-digest candidates is filtered and the survivors sampled.
ScenarioSpec == ScenarioInit /\ [][ScenarioNext]_vars

LimitInit ==
    /\ FilterIdle
    /\ SampleIdle
    /\ LabelIdle
    /\ ClosuresIdle
    /\ MetricsIdle
    /\ RandomIdle
    /\ IdsIdle
    /\ FoldersIdle
    /\ engine \in {"v1_search", "create_filter_predicate"}
    /\ registered = {}
    /\ filter_names = <<>>
    /\ limit_param \in LimitParams
    /\ search_limit = 0
    /\ upstream = <<>>
    /\ search_pc = "request"
    /\ preds = <<>>
    /\ cursor = 0
    /\ verdicts = <<>>

LimitNext ==
    \/ ParseLimit
    \/ LimitScan
    \/ SampleReplace
    \/ SampleDiscard
    \/ SampleReturn

\* A request's `limit` parameter, from the query string to the sampler.
LimitSpec == LimitInit /\ [][LimitNext]_vars

MetricsInit ==
    /\ FilterIdle
    /\ SampleIdle
    /\ LabelIdle
    /\ ClosuresIdle
    /\ MetricsIdle
    /\ RandomIdle
    /\ IdsIdle
    /\ FoldersIdle
    /\ SearchIdle

MetricsNext == MetricsCall \/ MetricsReset

\* Calls of nilsimsa_max_similarity.
MetricsSpec == MetricsInit /\ [][MetricsNext]_vars

ThresholdInit ==
    /\ FilterInit(Thresholds(Digests), ClosureFCs \cup {make_fc({})})
    /\ SampleIdle
    /\ LabelIdle
    /\ ClosuresIdle
    /\ MetricsIdle
    /\ RandomIdle
    /\ IdsIdle
    /\ FoldersIdle
    /\ SearchIdle

ThresholdNext == InitFilter \/ ThresholdedEvaluate

\* The near-duplicate predicate over a kernel that may stop early.
ThresholdSpec == ThresholdInit /\ [][ThresholdNext]_vars

IdentifierInit ==
    /\ FilterInit(Thresholds(Digests), ClosureFCs \cup {make_fc({})})
    /\ SampleIdle
    /\ LabelIdle
    /\ ClosuresIdle
    /\ MetricsIdle
    /\ RandomIdle
    /\ IdsIdle
    /\ FoldersIdle
    /\ SearchIdle

IdentifierNext == InitFilter \/ EvaluateAnyId

\* The near-duplicate predicate on streams whose content ids are arbitrary.
IdentifierSpec == IdentifierInit /\ [][IdentifierNext]_vars

\* A store, a query, a filter predicate and a limit for the random engine;
\* the limit is what str_to_max_int let through.
RandomInit ==
    /\ FilterIdle
    /\ SampleIdle
    /\ LabelIdle
    /\ ClosuresIdle
    /\ MetricsIdle
    /\ SearchIdle
    /\ IdsIdle
    /\ FoldersIdle
    /\ rand_pc = "idle"
    /\ name_indexed \in BOOLEAN
    /\ rand_fc \in {RandNone} \cup {RandFC(names) : names \in SUBSET RandNames}
    /\ name_scan \in [RandNames -> SUBSET RandIds]
    /\ rand_store \in SUBSET RandIds
    /\ rand_pred \in SUBSET RandIds
    /\ rand_limit \in (0 - 1)..MaxRandIds
    /\ rand_results = <<>>

RandomNext == random

\* One call of the random search engine.
RandomSpec == RandomInit /\ [][RandomNext]_vars

\* A call of plain_index_scan for a query the store holds or not.
IdsInit ==
    /\ FilterIdle
    /\ SampleIdle
    /\ LabelIdle
    /\ ClosuresIdle
    /\ MetricsIdle
    /\ RandomIdle
    /\ SearchIdle
    /\ FoldersIdle
    /\ ids_pc = "idle"
    /\ ids_query \in {NoQueryFC}
          \cup {QueryFeatures(feats) : feats \in [1..Len(IndexNames) -> IndexFeatures]}
    /\ ids_plan = <<>>
    /\ cids = {}
    /\ blacklist = {}
    /\ ids_read = <<>>
    /\ ids_yielded = <<>>

IdsNext ==
    \/ streaming_ids
    \/ scan
    \/ ScanExhausted
    \/ IndexScanSample
    \/ SampleReplace
    \/ SampleDiscard
    \/ SampleReturn

\* The candidate ids of one call of plain_index_scan, and its sample.
IdsSpec == IdsInit /\ [][IdsNext]_vars

\* Folders(store, label_store) over empty stores, as in the tests' fixture.
FoldersInit ==
    /\ FilterIdle
    /\ SampleIdle
    /\ LabelIdle
    /\ ClosuresIdle
    /\ MetricsIdle
    /\ RandomIdle
    /\ IdsIdle
    /\ SearchIdle
    /\ fc_store = {}
    /\ folder_labels = {}
    /\ folder_call = NoCall

FoldersNext ==
    \/ AddFolderCall
    \/ AddItemCall
    \/ FoldersCall
    \/ SubfoldersCall
    \/ ItemsCall
    \/ FolderReturn

\* Any sequence of calls of the methods of one Folders object.
FoldersSpec == FoldersInit /\ [][FoldersNext]_vars

\* ------------------------------------------------------------- claims

\* The digests of the i-th candidate of the stream.
KeysOf(i) == get_string_counter(stream[i].fc).keys

\* The digest set of the query (empty when it has no digest feature).
QueryKeys == get_string_counter(query_fc).keys

\* This step is a call of the predicate that returned.
Returned == Len(results') = Len(results) + 1

\* The digests and the id of the candidate this step evaluates, and what
\* the predicate returns for it.
StepKeys == get_string_counter(stream'[Len(stream')].fc).keys

StepId == stream'[Len(stream')].content_id

StepResult == results'[Len(results')]

\* The best kernel score of digest set `keys` against the digests `held`
\* exceeds the threshold.
Exceeds(keys, held) ==
    \E hash1 \in keys, hash2 \in held :
        compare_digests(hash1, hash2) > threshold

\* C1: when some digest of the evaluated candidate is already a key of the
\* accumulator, the predicate returns False, calls the kernel for no pair
\* and leaves the accumulator, keys and values, as it was.
C1_ExactMatchFastPath ==
    [][ (Returned /\ StepKeys \cap DOMAIN accumulator # {})
          => /\ StepResult = FALSE
             /\ ~kernelCalled'
             /\ accumulator' = accumulator ]_vars

\* The second candidate shares one of its two digests with the first, kept,
\* candidate (not with the query) and is rejected without a comparison.
C1_Witness ==
    /\ Len(results) = 2
    /\ results[1] = TRUE /\ results[2] = FALSE
    /\ KeysOf(2) \cap KeysOf(1) # {}
    /\ KeysOf(2) \cap QueryKeys = {}
    /\ Cardinality(KeysOf(2)) = 2
    /\ ~(KeysOf(2) \subseteq DOMAIN accumulator)
    /\ ~kernelCalled

\* C2: at every position of every stream, a candidate carrying one of the
\* query's digests is rejected; so a stream whose candidates all carry the
\* query's digest keeps none.
C2_QueryDigestRejected ==
    \A i \in DOMAIN results :
        KeysOf(i) \cap QueryKeys # {} => results[i] = FALSE

\* A kept candidate, then copies of the query's digest, all rejected.
C2_Witness ==
    /\ Len(results) >= 4
    /\ QueryKeys # {}
    /\ results[1] = TRUE
    /\ \A i \in 2..Len(results) :
          KeysOf(i) = QueryKeys /\ results[i] = FALSE

\* C3: when no digest of the candidate is a key of the accumulator, the
\* predicate rejects it exactly when some pair (candidate digest, accumulated
\* digest) scores strictly above the threshold, and a rejection leaves the
\* accumulator unchanged.
C3_PairwiseThreshold ==
    [][ (Returned /\ StepKeys \cap DOMAIN accumulator = {})
          => /\ StepResult = FALSE <=> Exceeds(StepKeys, DOMAIN accumulator)
             /\ StepResult = FALSE => accumulator' = accumulator ]_vars

\* The first candidate is rejected by a comparison; the second, whose best
\* score equals the threshold, is kept.
C3_Witness ==
    /\ Len(results) = 2
    /\ results[1] = FALSE /\ results[2] = TRUE
    /\ KeysOf(1) # {} /\ KeysOf(1) \cap QueryKeys = {}
    /\ \E hash1 \in KeysOf(2), hash2 \in QueryKeys :
          compare_digests(hash1, hash2) = threshold

\* C4: when neither the exact-match path nor the pairwise path rejects the
\* candidate, the predicate returns True, every digest of the candidate is
\* then a key mapped to the candidate's id, and every earlier entry is kept.
C4_AcceptPath ==
    [][ ( /\ Returned
          /\ StepKeys \cap DOMAIN accumulator = {}
          /\ ~Exceeds(StepKeys, DOMAIN accumulator) )
          => /\ StepResult = TRUE
             /\ \A nhash \in StepKeys :
                   /\ nhash \in DOMAIN accumulator'
                   /\ accumulator'[nhash] = StepId
             /\ \A nhash \in DOMAIN accumulator :
                   /\ nhash \in DOMAIN accumulator'
                   /\ accumulator'[nhash] = accumulator[nhash] ]_vars

\* A candidate with two digests was accepted into a seeded accumulator.
C4_Witness ==
    /\ Len(results) >= 1
    /\ results[Len(results)] = TRUE
    /\ Cardinality(KeysOf(Len(results))) = 2
    /\ QueryKeys # {}
    /\ \A nhash \in KeysOf(Len(results)) :
          accumulator[nhash] = stream[Len(results)].content_id
    /\ \A nhash \in QueryKeys : accumulator[nhash] = query_content_id

\* The digests of the candidates the predicate returned True for.
KeptKeys == UNION {KeysOf(i) : i \in {j \in DOMAIN results : results[j]}}

\* C5: every key of the accumulator is a digest of the query or of a
\* candidate the predicate returned True for; a rejected candidate adds none.
C5_AccumulatorInvariant ==
    DOMAIN accumulator \subseteq QueryKeys \cup KeptKeys

\* One candidate was kept and another, with a digest the accumulator does
\* not hold, was rejected.
C5_Witness ==
    /\ \E i \in DOMAIN results : results[i] = TRUE
    /\ \E i \in DOMAIN results :
          /\ results[i] = FALSE
          /\ ~(KeysOf(i) \subseteq DOMAIN accumulator)
    /\ QueryKeys # {}

\* C6: no step removes a key of the accumulator or changes the id stored
\* for it.
C6_AccumulatorMonotone ==
    [][ \A nhash \in DOMAIN accumulator :
           /\ nhash \in DOMAIN accumulator'
           /\ accumulator'[nhash] = accumulator[nhash] ]_vars

\* The accumulator holds the query's digest and those of two kept
\* candidates, each under its contributor's id.
C6_Witness ==
    /\ Len(results) = 2
    /\ results[1] = TRUE /\ results[2] = TRUE
    /\ QueryKeys # {} /\ KeysOf(1) # {} /\ KeysOf(2) # {}
    /\ \A nhash \in QueryKeys : accumulator[nhash] = query_content_id
    /\ \A nhash \in KeysOf(1) : accumulator[nhash] = 1
    /\ \A nhash \in KeysOf(2) : accumulator[nhash] = 2

\* Candidate i is a near-duplicate of the query: it shares a digest with it
\* or scores above the threshold against it.
NearQuery(i) ==
    \/ KeysOf(i) \cap QueryKeys # {}
    \/ Exceeds(KeysOf(i), QueryKeys)

\* C7: when item 1 is no near-duplicate of the query and each of the items
\* 2..N has a digest scoring above the threshold against a digest of item 1,
\* exactly item 1 is kept; and whenever an item is kept, every later item
\* with a digest scoring above the threshold against one of its digests is
\* rejected.
C7_StreamOrder ==
    /\ ( /\ Len(results) >= 1
         /\ ~NearQuery(1)
         /\ \A i \in 2..Len(results) : Exceeds(KeysOf(i), KeysOf(1)) )
         => /\ results[1] = TRUE
            /\ \A i \in 2..Len(results) : results[i] = FALSE
    /\ \A i, j \in DOMAIN results :
          (i < j /\ results[i] /\ Exceeds(KeysOf(j), KeysOf(i)))
             => results[j] = FALSE

\* Item 1 is kept and the later items are rejected as near-duplicates of
\* it, by a comparison, none of them being a near-duplicate of the query.
C7_Witness ==
    /\ Len(results) >= 4
    /\ QueryKeys # {}
    /\ results[1] = TRUE
    /\ \A i \in 2..Len(results) :
          /\ results[i] = FALSE
          /\ ~NearQuery(i)
          /\ KeysOf(i) \cap KeysOf(1) = {}
          /\ Exceeds(KeysOf(i), KeysOf(1))

\* The candidates carry one digest each, no two of them and none of them and
\* the query share a digest, and no pair of them, nor any of them and the
\* query, scores above the threshold.
PairwiseDistinct ==
    /\ \A i \in DOMAIN stream : Cardinality(KeysOf(i)) = 1
    /\ \A i \in DOMAIN stream :
          /\ KeysOf(i) \cap QueryKeys = {}
          /\ ~Exceeds(KeysOf(i), QueryKeys)
    /\ \A i, j \in DOMAIN stream :
          i # j => /\ KeysOf(i) \cap KeysOf(j) = {}
                   /\ ~Exceeds(KeysOf(i), KeysOf(j))

\* C8: a stream of N pairwise distinct one-digest candidates is kept whole,
\* and the accumulator ends with N + |Q| entries.
C8_DistinctAllKept ==
    (pc = "ready" /\ PairwiseDistinct)
       => /\ Len(results) = Len(stream)
          /\ \A i \in DOMAIN results : results[i] = TRUE
          /\ Cardinality(DOMAIN accumulator)
               = Len(stream) + Cardinality(QueryKeys)

\* Two distinct candidates were kept beside the query's digest, one of them
\* scoring exactly the threshold against another digest held.
C8_Witness ==
    /\ pc = "ready" /\ PairwiseDistinct
    /\ Len(stream) = 2
    /\ Cardinality(QueryKeys) = 1
    /\ Cardinality(DOMAIN accumulator) = 3
    /\ \E hash1 \in KeysOf(2), hash2 \in KeysOf(1) \cup QueryKeys :
          compare_digests(hash1, hash2) = threshold

\* The pairs of digests of S that are near-duplicates of each other.
NearPairs(S) ==
    {pair \in S \X S :
        pair[1] = pair[2] \/ compare_digests(pair[1], pair[2]) > threshold}

RECURSIVE Cluster(_, _, _)
\* The digests of S linked to those of `c` by a chain of near-duplicates.
Cluster(c, S, near) ==
    LET more == {b \in S : \E a \in c : <<a, b>> \in near}
    IN  IF more \subseteq c THEN c ELSE Cluster(c \cup more, S, near)

\* The similarity clusters of S that do not contain the digest q.
ClustersWithout(q, S, near) ==
    {Cluster({a}, S, near) : a \in S} \ {Cluster({q}, S, near)}

\* Near-duplication is transitive on S.
Transitive(S, near) ==
    \A a, b, c \in S :
        (<<a, b>> \in near /\ <<b, c>> \in near) => <<a, c>> \in near

\* The digests of the tests' texts.
TextSet == {texts[i] : i \in DOMAIN texts}

KeptCount == Cardinality({i \in DOMAIN results : results[i]})

\* filter(accumulating_predicate, fcs) has returned.
Filtered == pc = "ready" /\ fcs = <<>>

\* C9 as stated: for a stream that repeats a list of texts, filtered against
\* the list's first item, the number kept is the number of similarity
\* clusters of the texts that do not contain the query.
C9_ClusterCount ==
    Filtered =>
        KeptCount
          = Cardinality(ClustersWithout(texts[1], TextSet, NearPairs(TextSet)))

\* C9: for a stream that repeats a list of texts, filtered against the
\* list's first item, every candidate past the first pass over the list is
\* rejected, so the number kept does not depend on the number of
\* repetitions; none is kept when every text is a near-duplicate of the
\* query; and when near-duplication is transitive on the texts, the number
\* kept is the number of similarity clusters without the query.
C9_ClusterCountTransitive ==
    /\ \A i \in DOMAIN results : i >= Len(texts) => results[i] = FALSE
    /\ (\A d \in TextSet : <<d, texts[1]>> \in NearPairs(TextSet))
         => KeptCount = 0
    /\ (Filtered /\ Transitive(TextSet, NearPairs(TextSet)))
         => KeptCount
              = Cardinality(ClustersWithout(texts[1], TextSet,
                                            NearPairs(TextSet)))

\* A list of three different texts, two of them near-duplicates of each
\* other and not of the query, was run through twice: one was kept.
C9_Witness ==
    /\ Filtered
    /\ Len(texts) = 3 /\ Len(stream) = 5
    /\ Cardinality(TextSet) = 3
    /\ Transitive(TextSet, NearPairs(TextSet))
    /\ <<texts[2], texts[3]>> \in NearPairs(TextSet)
    /\ results = <<TRUE, FALSE, FALSE, FALSE, FALSE>>

\* The length C10 states for the values of k and limit the call was given.
ClaimedLength ==
    LET kv == CHOOSE x \in arg_k : TRUE
    IN  IF arg_limit = {} THEN Min(kv, seq_len)
        ELSE Min(Min(kv, CHOOSE l \in arg_limit : TRUE), seq_len)

\* C10: for every integer k >= 0 and every finite stream, streaming_sample
\* returns a list of min(k, n) items (min(k, L, n) with a scan limit L),
\* taken from distinct positions of the stream.
C10_SampleLength ==
    (sample_pc \in {"done", "raised"} /\ arg_k # {})
       => /\ sample_pc = "done"
          /\ Len(result) = ClaimedLength
          /\ \A i \in DOMAIN result : result[i] \in 1..seq_len
          /\ \A i, j \in DOMAIN result : i # j => result[i] # result[j]

\* The call is over, by a return or by an exception.
SampleOver == sample_pc \in {"done", "raised"}

\* C11: when k is None, or when no scan limit is given and k is at least the
\* length of the stream, streaming_sample returns and its result is the
\* stream itself: every item once, in stream order.
C11_WholeStream ==
    ( /\ SampleOver
      /\ \/ arg_k = {}
         \/ arg_limit = {} /\ \E kv \in arg_k : kv >= seq_len )
       => /\ sample_pc = "done"
          /\ result = [i \in 1..seq_len |-> i]

\* A stream of exactly k = 3 items, no scan limit, came back whole.
C11_Witness ==
    /\ sample_pc = "done"
    /\ arg_k = {3} /\ arg_limit = {} /\ seq_len = 3
    /\ result = <<1, 2, 3>>

\* C12: given a scan limit L and an integer k, streaming_sample never pulls
\* more than L items from the stream, min(k, L) of them at most into the
\* reservoir before the loop, and it returns.
C12_ScanLimit ==
    (sample_pc # "idle" /\ arg_k # {} /\ arg_limit # {})
       => LET L == CHOOSE l \in arg_limit : TRUE
              kv == CHOOSE x \in arg_k : TRUE
          IN  /\ pos <= L
              /\ Len(result) <= Min(kv, L)
              /\ scanned <= L - Min(kv, L)
              /\ sample_pc # "raised"

\* This step is the loop of line 120 taking an item in, by a replacement or
\* by a discard.
LoopStep == sample_pc = "loop" /\ sample_pc' = "loop" /\ pos' = pos + 1

\* C13: the reservoir is first filled with the first k items of the stream,
\* and the i-th item of the stream, i > k, replaces a slot with probability
\* k / i, each slot being as likely as another.
C13_ReplaceChance ==
    [][ /\ (sample_pc = "idle" /\ sample_pc' = "loop")
            => result' = [i \in 1..Min(k', seq_len') |-> i]
        /\ LoopStep
            => /\ ReplaceChance(count).num * (pos + 1)
                    = k * ReplaceChance(count).den
               /\ SlotChance(k).num * k = SlotChance(k).den ]_vars

\* C14: while streaming_sample runs and when it is over, the reservoir
\* holds min(k, items pulled) items, they are distinct positions of the
\* prefix pulled so far, and a replacement leaves its length as it was.
C14_ReservoirInvariant ==
    /\ [](  (sample_pc # "idle" /\ arg_k # {})
              => /\ Len(result) = Min(CHOOSE kv \in arg_k : TRUE, pos)
                 /\ \A i \in DOMAIN result : result[i] \in 1..pos
                 /\ \A i, j \in DOMAIN result :
                       i # j => result[i] # result[j] )
    /\ [][ (LoopStep /\ result' # result)
              => /\ Len(result') = Len(result)
                 /\ \E slot \in DOMAIN result :
                       /\ result'[slot] = pos + 1
                       /\ \A rest \in DOMAIN result \ {slot} :
                             result'[rest] = result[rest] ]_vars

\* A reservoir of two was filled, then its first slot was replaced by the
\* fourth item of the stream, the third having been discarded.
C14_Witness ==
    /\ sample_pc = "loop"
    /\ arg_k = {2} /\ arg_limit = {}
    /\ pos = 4
    /\ result = <<4, 2>>

\* C15: for k = 1, no scan limit and a stream of M items, each item of the
\* stream is the one returned with probability 1 / M.
C15_UniformSelection ==
    (sample_pc = "done" /\ arg_k = {1} /\ arg_limit = {} /\ seq_len >= 1)
       => \A j \in 1..seq_len :
             SameChance(InclusionChance(j, seq_len, 1), Chance(1, seq_len))

\* The ids labelled with the query in the label store as it is now.
LabeledNow ==
    {c \in ContentIds :
        <<query_content_id, c>> \in label_store
          \/ <<c, query_content_id>> \in label_store}

\* C19: directly_connected is called once, by init_filter, and never by p;
\* the rejection set is the far ends of the labels that call returned, and
\* no call of p and no later label changes it; p returns False exactly for
\* the ids in it, so an id gets the same answer whenever it is asked.
C19_StaticRejectionSet ==
    /\ [](  /\ labeled_pc = "new" => connected = 0
            /\ labeled_pc = "ready" => connected = 1
            /\ \A i, j \in DOMAIN answers :
                  asked[i] = asked[j] => answers[i] = answers[j] )
    /\ [][ /\ (labeled_pc = "new" /\ labeled_pc' = "ready")
               => labeled_cids' = LabeledNow
           /\ labeled_pc = "ready"
               => labeled_cids' = labeled_cids /\ connected' = connected
           /\ Len(answers') = Len(answers) + 1
               => answers'[Len(answers')]
                    = (asked'[Len(asked')] \notin labeled_cids) ]_vars

\* Id 1 was labelled when the predicate was built and is rejected twice; id
\* 2 was labelled afterwards and is accepted in between.
C19_Witness ==
    /\ labeled_pc = "ready"
    /\ labeled_cids = {1}
    /\ <<2, query_content_id>> \in label_store
    /\ asked = <<1, 2, 1>>
    /\ answers = <<FALSE, TRUE, FALSE>>

RECURSIVE AloneAccumulator(_, _, _)
\* The accumulator of a predicate built for query q that has been handed,
\* with no other predicate around, the first n candidates of `str`.
AloneAccumulator(q, str, n) ==
    IF n = 0
    THEN SeedAccumulator(get_string_counter(q), query_content_id)
    ELSE PredicateAccumulator(AloneAccumulator(q, str, n - 1), threshold,
                              get_string_counter(str[n].fc).keys,
                              str[n].content_id)

\* What that predicate returns for the n-th candidate.
AloneResult(q, str, n) ==
    PredicateResult(AloneAccumulator(q, str, n - 1), threshold,
                    get_string_counter(str[n].fc).keys)

\* C20: however the calls of two requests' predicates interleave, each
\* predicate has returned what it returns when it runs alone on its own
\* stream, and its accumulator is the one it has then.
C20_IndependentAccumulators ==
    \A c \in Closures :
        closures[c].pc = "ready"
          => /\ closures[c].results =
                   [n \in 1..Len(closures[c].stream) |->
                       AloneResult(closures[c].query_fc, closures[c].stream, n)]
             /\ dicts[DictOf(c)] =
                   AloneAccumulator(closures[c].query_fc, closures[c].stream,
                                    Len(closures[c].stream))

\* Two predicates for different queries each kept a candidate with the same
\* digest, and one of them then rejected what the other's query seeded.
C20_Witness ==
    /\ closures[1].pc = "ready" /\ closures[2].pc = "ready"
    /\ closures[1].query_fc # closures[2].query_fc
    /\ Len(closures[1].stream) = 2 /\ Len(closures[2].stream) = 2
    /\ closures[1].stream[1].fc = closures[2].stream[1].fc
    /\ closures[1].results[1] = TRUE /\ closures[2].results[1] = TRUE
    /\ closures[1].stream[2].fc = closures[1].query_fc
    /\ closures[2].stream[2].fc = closures[1].query_fc
    /\ closures[1].results[2] = FALSE /\ closures[2].results[2] = TRUE

\* The candidates the filter has kept so far, by position in upstream.
KeptPositions == {i \in DOMAIN verdicts : verdicts[i].kept}

\* The candidate that was the j-th item the ifilter yielded.
YieldedAt(j) ==
    CHOOSE i \in KeptPositions :
        Cardinality({h \in KeptPositions : h <= i}) = j

\* C16: whatever the candidates and the limit, what plain_index_scan's
\* sample holds, at any time and when it is returned, is at most `limit`
\* items, each a different candidate that has a feature collection and for
\* which every sub-predicate was called and returned True; the sampler is
\* offered the kept candidates and no others.
C16_FilteredSample ==
    (engine = "v1_search" /\ sample_pc # "idle")
       => /\ Len(result) <= search_limit
          /\ seq_len = Cardinality(KeptPositions)
          /\ \A i, j \in DOMAIN result : i # j => result[i] # result[j]
          /\ \A j \in DOMAIN result :
                /\ result[j] \in 1..seq_len
                /\ LET i == YieldedAt(result[j])
                   IN  /\ ~upstream[i].fc.isNone
                       /\ Len(verdicts[i].called) = Len(preds)
                       /\ \A c \in DOMAIN preds :
                             /\ verdicts[i].called[c].pred = preds[c]
                             /\ verdicts[i].called[c].ret = "True"

\* Of three candidates the first was rejected by already_labeled, the
\* second by the near-duplicate filter, and the third is the sample.
C16_Witness ==
    /\ engine = "v1_search" /\ sample_pc = "done"
    /\ preds = <<"already_labeled", "nilsimsa_near_duplicates">>
    /\ search_limit = 1
    /\ Len(verdicts) = 3
    /\ ~verdicts[1].kept /\ Len(verdicts[1].called) = 1
    /\ ~verdicts[2].kept /\ Len(verdicts[2].called) = 2
    /\ verdicts[3].kept
    /\ result = <<1>>

\* The predicates the request's filter is made of, `lambda _: True` aside.
Applied(ps) == SelectSeq(ps, LAMBDA name : name # "true")

\* This step builds the predicate, and the request goes on.
Builds == search_pc = "request" /\ search_pc' = "built"

\* This step applies the filter to a candidate.
Filters == cursor' = cursor + 1

\* The candidate it is applied to, and the record made of it.
FilteredCandidate == upstream[cursor + 1]

Verdict == verdicts'[Len(verdicts')]

C18_ShortCircuit ==
    [][ Filters
          => LET called == Verdict.called
                 ndCalled == \E c \in DOMAIN called :
                                called[c].pred = "nilsimsa_near_duplicates"
                 alCalled == \E c \in DOMAIN called :
                                called[c].pred = "already_labeled"
             IN  /\ Len(called) <= Len(preds)
                 /\ \A c \in DOMAIN called :
                       /\ called[c].pred = preds[c]
                       /\ c < Len(called) => called[c].ret = "True"
                 /\ (Len(called) < Len(preds) /\ ~FilteredCandidate.fc.isNone)
                      => called[Len(called)].ret # "True"
                 /\ IF ndCalled
                    THEN Len(stream') = Len(stream) + 1
                    ELSE /\ accumulator' = accumulator
                         /\ stream' = stream
                         /\ results' = results
                 /\ IF alCalled
                    THEN Len(asked') = Len(asked) + 1
                    ELSE asked' = asked /\ answers' = answers ]_vars

\* already_labeled rejected the first candidate, so the near-duplicate
\* filter never saw its digest, and kept the second, which carries the same
\* digest.
C18_Witness ==
    /\ preds = <<"already_labeled", "nilsimsa_near_duplicates">>
    /\ Len(verdicts) = 2
    /\ upstream[1].fc = upstream[2].fc
    /\ ~verdicts[1].kept /\ Len(verdicts[1].called) = 1
    /\ verdicts[2].kept /\ Len(verdicts[2].called) = 2
    /\ Len(stream) = 1 /\ stream[1].content_id = 2
    /\ results = <<TRUE>>
    /\ accumulator[3] = 2

\* C21: with the query's digest set {D} and the stream (1,{D}), (2,{D'}),
\* (3,{D''}), D' scoring above the threshold against D and D'' not, the
\* filter keeps exactly candidate 3, and a sample of the survivors with
\* k >= 1 (the scenario's k = 5 among them) is exactly that candidate.
C21_EndToEnd ==
    ( /\ sample_pc = "done"
      /\ Len(stream) = 3
      /\ Cardinality(QueryKeys) = 1
      /\ KeysOf(1) = QueryKeys
      /\ Exceeds(KeysOf(2), QueryKeys)
      /\ ~Exceeds(KeysOf(3), QueryKeys)
      /\ \E kv \in arg_k : kv >= 1 )
       => /\ results = <<FALSE, FALSE, TRUE>>
          /\ [j \in DOMAIN result |-> Survivor(result[j])] = <<3>>

\* The scenario ran with k = 5, D' another digest than D, and D'' scoring
\* exactly the threshold against D.
C21_Witness ==
    /\ sample_pc = "done"
    /\ arg_k = {5}
    /\ Len(stream) = 3
    /\ Cardinality(QueryKeys) = 1
    /\ KeysOf(1) = QueryKeys
    /\ KeysOf(2) # QueryKeys /\ Exceeds(KeysOf(2), QueryKeys)
    /\ \E hash1 \in KeysOf(3), hash2 \in QueryKeys :
          compare_digests(hash1, hash2) = threshold
    /\ results = <<FALSE, FALSE, TRUE>>
    /\ result = <<1>>

\* C22: plain_index_scan takes the candidates one at a time and in order:
\* a candidate is fetched only when the sampler asks for an item and every
\* candidate kept before it has been handed to the sampler; every candidate
\* fetched is evaluated once; and the pipeline never holds more than k kept
\* candidates beside the one in hand.
C22_LazySinglePass ==
    /\ [](  engine = "v1_search"
              => /\ Len(verdicts) = cursor
                 /\ seq_len = Cardinality(KeptPositions)
                 /\ pos <= seq_len /\ seq_len <= pos + 1
                 /\ sample_pc # "idle"
                      => /\ Len(result) <= k
                         /\ Len(result) + (seq_len - pos) <= k + 1
                 /\ \A i, j \in DOMAIN stream :
                       i # j => stream[i].content_id # stream[j].content_id
                 /\ \A i, j \in DOMAIN asked : i # j => asked[i] # asked[j] )
    /\ [][ engine = "v1_search"
              => /\ cursor' \in {cursor, cursor + 1}
                 /\ cursor' = cursor + 1
                      => /\ pos = seq_len
                         /\ \/ sample_pc = "fill" /\ Len(result) < k
                            \/ /\ sample_pc = "loop"
                               /\ \E l \in limit : scanned < l
                         /\ verdicts' = Append(verdicts, Verdict)
                         /\ result' = result ]_vars

\* With limit 1, the first candidate was rejected by the filter, the second
\* filled the reservoir, and the third, kept, replaced it.
C22_Witness ==
    /\ engine = "v1_search" /\ sample_pc = "done"
    /\ search_limit = 1
    /\ cursor = 3
    /\ ~verdicts[1].kept /\ verdicts[2].kept /\ verdicts[3].kept
    /\ Len(verdicts[1].called) = 1
    /\ result = <<2>>

\* This step is a call of init_filter.
Initialises == pc = "new" /\ pc' # "new"

\* C23: when the store has no feature collection for the query id,
\* init_filter does not raise: it returns a predicate, built on an empty
\* accumulator.
C23_MissingQueryNoRaise ==
    [][ (Initialises /\ query_fc.isNone)
          => /\ pc' = "ready"
             /\ accumulator' = EmptyAccumulator ]_vars

\* This step hands a candidate to the near-duplicate predicate.
Evaluates == Len(stream') = Len(stream) + 1

\* C24: handed a candidate whose feature collection has no StringCounter of
\* digests, the near-duplicate predicate does not raise: it returns a
\* decision and leaves the accumulator as it was.
C24_MalformedCandidateNoRaise ==
    [][ (Evaluates /\ get_string_counter(stream'[Len(stream')].fc) = NoneValue)
          => /\ pc' = "ready"
             /\ Returned
             /\ accumulator' = accumulator ]_vars

\* The query has a feature collection but no digest in it.
NoQuerySignal == ~query_fc.isNone /\ QueryKeys = {}

\* Candidate i is a near-duplicate of candidate j.
NearCandidate(i, j) ==
    \/ KeysOf(i) \cap KeysOf(j) # {}
    \/ Exceeds(KeysOf(i), KeysOf(j))

C26_LimitClamped ==
    /\ search_pc = "parsed"
         => /\ search_limit >= SchemaMinimum
            /\ search_limit <= MaximumOf(engine)
    /\ sample_pc # "raised"

\* C27: when a read of the index scan or of the store raises during
\* plain_index_scan, the call ends there: nothing is read again, nothing
\* else happens, and no result is returned; and a call that returns has
\* read its candidates without failure up to the end of the scan or to the
\* scan limit, and returns min(limit, candidates kept) items.
C27_FailurePropagates ==
    /\ [](  /\ search_pc = "failed" => sample_pc \in {"fill", "loop"}
            /\ (engine = "v1_search" /\ sample_pc = "done")
                 => /\ search_pc = "scan"
                    /\ cursor = Len(upstream) \/ ~Wanted
                    /\ Len(result) = Min(search_limit, seq_len) )
    /\ [][ search_pc # "failed" ]_vars

\* The read failed with one candidate in the reservoir and a second one
\* already filtered out.
C27_Witness ==
    /\ search_pc = "failed"
    /\ sample_pc = "loop"
    /\ search_limit = 1
    /\ cursor = 2 /\ Len(upstream) = 3
    /\ result = <<1>>
    /\ verdicts[1].kept /\ ~verdicts[2].kept

\* The digest sets the decorator hands to the kernel, empty when missing.
SimKeys1 == require_string_counter(sim_fc1).keys

SimKeys2 == require_string_counter(sim_fc2).keys

\* Each argument has a StringCounter of digests or no such feature at all.
SimWellTyped ==
    /\ require_string_counter(sim_fc1).type \in {"StringCounter", "None"}
    /\ require_string_counter(sim_fc2).type \in {"StringCounter", "None"}

\* The scores of all pairs of the two digest sets.
SimScores == {compare_digests(h1, h2) : h1 \in SimKeys1, h2 \in SimKeys2}

\* C28: nilsimsa_max_similarity returns the greatest score of the pairs of
\* the two digest sets divided by 128; 0, without a comparison, when a
\* digest set is empty or missing; and 1.0 at the first perfect match,
\* without comparing the pairs after it.
C28_MaxSimilarity ==
    (sim_pc # "idle" /\ SimWellTyped)
       => /\ sim_pc = "done"
          /\ (SimKeys1 = {} \/ SimKeys2 = {})
               => sim_value = Quotient(0, 1) /\ sim_compared = 0
          /\ (SimKeys1 # {} /\ SimKeys2 # {})
               => /\ \E m \in SimScores :
                        /\ \A score \in SimScores : score <= m
                        /\ sim_value.num * MaxScore = m * sim_value.den
                  /\ Range(sim_pairs) = SimKeys1 \X SimKeys2
                  /\ Len(sim_pairs) = Cardinality(SimKeys1 \X SimKeys2)
                  /\ IF MaxScore \in SimScores
                     THEN /\ sim_value = Quotient(1, 1)
                          /\ sim_compared \in DOMAIN sim_pairs
                          /\ sim_pairs[sim_compared][1]
                                = sim_pairs[sim_compared][2]
                          /\ \A i \in 1..(sim_compared - 1) :
                                sim_pairs[i][1] # sim_pairs[i][2]
                     ELSE sim_compared = Len(sim_pairs)

\* Two sets of two digests with one digest in common: the second pair of
\* four was the perfect match, and the last two were not compared.
C28_Witness ==
    /\ sim_pc = "done"
    /\ Len(sim_pairs) = 4
    /\ sim_compared = 2
    /\ sim_value = Quotient(1, 1)

\* C29: the value nilsimsa_max_similarity returns lies within [0, 1].
C29_NormalizedRange ==
    sim_pc = "done"
       => /\ sim_value.den > 0
          /\ 0 <= sim_value.num
          /\ sim_value.num <= sim_value.den

\* C30: whatever the thresholded kernel returns within its contract (the
\* score when it reaches the threshold, the score or less when it does
\* not), the predicate has returned for every candidate what the predicate
\* over exact scores returns, and its accumulator is that predicate's.
C30_ThresholdTransparent ==
    pc = "ready"
       => /\ results = [n \in 1..Len(stream) |->
                           AloneResult(query_fc, stream, n)]
          /\ accumulator = AloneAccumulator(query_fc, stream, Len(stream))

\* The second candidate was kept although the kernel answered less than the
\* true score for one of its pairs and the exact score, which equals the
\* threshold, for another.
C30_Witness ==
    /\ pc = "ready"
    /\ results = <<TRUE, TRUE>>
    /\ \E pair \in DOMAIN returned :
          returned[pair] < compare_digests(pair[1], pair[2])
    /\ \E pair \in DOMAIN returned :
          /\ returned[pair] = compare_digests(pair[1], pair[2])
          /\ returned[pair] = threshold

\* The stream with its candidates' content ids replaced by their positions.
Renumbered(str) ==
    [i \in DOMAIN str |-> [content_id |-> i, fc |-> str[i].fc]]

\* C31: the decisions for a stream are those for the stream that differs
\* from it only in its content ids (each candidate under an id of its own,
\* none the query's): the decisions depend on the digests alone.
C31_IdentifierIndependent ==
    pc = "ready"
       => results = [n \in 1..Len(stream) |->
                        AloneResult(query_fc, Renumbered(stream), n)]

\* Two candidates came under the query's content id, with different digests
\* far from the query's, and both were kept.
C31_Witness ==
    /\ pc = "ready"
    /\ Len(stream) = 2
    /\ stream[1].content_id = query_content_id
    /\ stream[2].content_id = query_content_id
    /\ QueryKeys # {}
    /\ results = <<TRUE, TRUE>>

\* C32: without a NAME index the random engine returns an empty result list
\* and does not raise; with one, what it returns has at most `limit`
\* results (none for a limit below zero), each with a feature collection and
\* accepted by the filter.
C32_RandomEngine ==
    /\ (rand_pc # "idle" /\ ~name_indexed)
          => (rand_pc = "done" /\ rand_results = <<>>)
    /\ (rand_pc = "done" /\ name_indexed)
          => /\ Len(rand_results) <= Max(0, rand_limit)
             /\ \A i \in DOMAIN rand_results :
                   rand_results[i] \in rand_store \cap rand_pred

\* C40: when streaming_sample has returned for some k >= 1, every item of
\* the prefix it pulled had a chance above zero of being in the result: for
\* every position there are draws of lines 121-122 that leave it in.
C40_EveryPositionPossible ==
    (sample_pc = "done" /\ arg_k # {} /\ k >= 1)
       => \A j \in 1..pos : InclusionChance(j, pos, k).num > 0

\* The positions of the candidates the predicate returned True for.
KeptAt == {i \in DOMAIN results : results[i]}

\* The digests the accumulator held when the i-th candidate was evaluated.
HeldBefore(i) ==
    QueryKeys \cup UNION {KeysOf(j) : j \in {m \in KeptAt : m < i}}

\* C37: no two kept candidates share a digest, no kept candidate shares one
\* with the query, and no digest of a kept candidate scores above the
\* threshold against a digest the accumulator held when it was evaluated.
C37_KeptSet ==
    \A i \in KeptAt :
        /\ KeysOf(i) \cap QueryKeys = {}
        /\ \A j \in KeptAt \ {i} : KeysOf(i) \cap KeysOf(j) = {}
        /\ \A hash1 \in KeysOf(i), hash2 \in HeldBefore(i) :
              compare_digests(hash1, hash2) <= threshold

\* Two candidates with a digest each were kept after a query with a digest,
\* and the digest of the second scores exactly the threshold against that
\* of the first.
C37_Witness ==
    /\ QueryKeys # {}
    /\ results = <<TRUE, TRUE>>
    /\ KeysOf(1) # {}
    /\ \E hash1 \in KeysOf(2), hash2 \in KeysOf(1) :
          compare_digests(hash1, hash2) = threshold

\* The near-duplicate predicate stands before another predicate in `preds`.
NearDuplicatesFirst ==
    \E a, b \in DOMAIN preds :
        a < b /\ preds[a] = "nilsimsa_near_duplicates"

\* The near-duplicate predicate was called for the i-th candidate and
\* returned `ret`.
NearDuplicatesSaid(i, ret) ==
    \E c \in DOMAIN verdicts[i].called :
        /\ verdicts[i].called[c].pred = "nilsimsa_near_duplicates"
        /\ verdicts[i].called[c].ret = ret

\* The digests of the i-th candidate of the index scan.
UpstreamKeys(i) == get_string_counter(upstream[i].fc).keys

\* C38: with the near-duplicate predicate before another predicate, the
\* accumulator holds the digests of every candidate the near-duplicate
\* predicate accepted, kept by the whole chain or not, and every later
\* candidate with a digest equal to, or scoring above the threshold
\* against, a digest of such a candidate is rejected by it.
C38_AbsorbsBeforeLaterPredicates ==
    NearDuplicatesFirst
       => \A i \in DOMAIN verdicts :
             NearDuplicatesSaid(i, "True")
                => /\ UpstreamKeys(i) \subseteq DOMAIN accumulator
                   /\ \A j \in DOMAIN verdicts :
                         ( /\ j > i
                           /\ ~upstream[j].fc.isNone
                           /\ \E hash1 \in UpstreamKeys(j),
                                  hash2 \in UpstreamKeys(i) :
                                 compare_digests(hash1, hash2) > threshold )
                            => /\ NearDuplicatesSaid(j, "False")
                               /\ ~verdicts[j].kept

\* The first candidate passed the near-duplicate predicate and was rejected
\* by already_labeled; the second, with the same digest, which is no
\* near-duplicate of the query's, was rejected by the near-duplicate
\* predicate; the search returned no result.
C38_Witness ==
    /\ preds = <<"nilsimsa_near_duplicates", "already_labeled">>
    /\ Len(verdicts) = 2
    /\ NearDuplicatesSaid(1, "True") /\ ~verdicts[1].kept
    /\ UpstreamKeys(2) = UpstreamKeys(1)
    /\ \A hash1 \in UpstreamKeys(2), hash2 \in QueryKeys :
          compare_digests(hash1, hash2) <= threshold
    /\ NearDuplicatesSaid(2, "False") /\ ~verdicts[2].kept
    /\ sample_pc = "done"
    /\ search_limit = 1
    /\ result = <<>>

Added(folder_id, ann_id) ==
    wrap_folder_content_id(annotator(ann_id), folder_id) \in fc_store

\* C33: folders(ann_id=a) yields every folder added for a, and yields no
\* folder that was not added for a; the store only grows, so this covers
\* every later sequence of calls.
C33_FoldersPerAnnotator ==
    \A ann_id \in AnnotatorIds, folder_id \in FolderIds :
        Added(folder_id, ann_id)
           <=> <<folder_id>> \in DOMAIN FoldersYield(ann_id)

\* A folder or subfolder id with a space or a slash.
BadId(ident) == " " \in Range(ident) \/ "/" \in Range(ident)

\* C34: a call of add_folder or add_item with a folder id or a subfolder id
\* that contains a space or a slash ends in ValueError and leaves the
\* feature store and the label store as they were.
C34_BadIdRejected ==
    [][ ( /\ folder_call'.op \in {"add_folder", "add_item"}
          /\ BadId(folder_call'.folder_id) \/ BadId(folder_call'.subfolder_id) )
           => /\ folder_call'.outcome = "ValueError"
              /\ fc_store' = fc_store
              /\ folder_labels' = folder_labels ]_vars

\* add_item on an existing folder that holds an item, with a subfolder id
\* that has a slash, raised ValueError.
C34_Witness ==
    /\ folder_call.op = "add_item"
    /\ Added(folder_call.folder_id, folder_call.ann_id)
    /\ folder_call.subfolder_id = <<"s", "/">>
    /\ folder_call.outcome = "ValueError"
    /\ Cardinality(folder_labels) = 1

\* The content id of the folder the last call was about.
CallFolder ==
    wrap_folder_content_id(annotator(folder_call.ann_id), folder_call.folder_id)

C36_SubfoldersAndItems ==
    /\ (folder_call.op = "subfolders" /\ folder_call.outcome = "ok")
          => /\ \A lab \in folder_labels :
                   lab.content_id1 = CallFolder
                      => /\ <<lab.subtopic_id1>> \in DOMAIN folder_call.yielded
                         /\ folder_call.yielded[<<lab.subtopic_id1>>] = 1
             /\ \A v \in DOMAIN folder_call.yielded :
                   \E lab \in folder_labels :
                       lab.content_id1 = CallFolder /\ lab.subtopic_id1 = v[1]
    /\ folder_call.op = "items"
          => \A lab \in folder_labels :
                ( /\ lab.content_id1 = CallFolder
                  /\ lab.subtopic_id1 = folder_call.subfolder_id )
                   => <<lab.content_id2, lab.subtopic_id2>>
                         \in DOMAIN folder_call.yielded

\* subfolders was asked about a folder with two items in one subfolder and
\* yielded that subfolder once.
C36_Witness ==
    /\ folder_call.op = "subfolders"
    /\ folder_call.outcome = "ok"
    /\ Cardinality(folder_labels) = 2
    /\ \A lab \in folder_labels :
          lab.content_id1 = CallFolder /\ lab.subtopic_id1 = <<"s">>
    /\ folder_call.yielded = [v \in {<<<<"s">>>>} |-> 1]

====
